---- MODULE Spec2Model ----
(***************************************************************************)
(* CA_lobby: the lobbying-transparency web backend (auth, admin, export,   *)
(* reports) and the web health monitor, as state machines.                 *)
(*                                                                         *)
(* Time is counted in whole hours.  Optional values of the source (None,   *)
(* a missing key) are the empty sequence <<>> or a one-element sequence;   *)
(* a missing timestamp is NoTime.  A JSON body is a function whose DOMAIN  *)
(* is the set of keys the body carries, so `key in data` is                *)
(* key \in DOMAIN data and an empty body is the empty function <<>>.       *)
(***************************************************************************)
EXTENDS Integers, Sequences, FiniteSets, TLC

VARIABLES
    MOCK_USERS,       \* api/auth.py: the login user table, keyed by email
    MOCK_USERS_DB,    \* api/admin.py: the admin user store, keyed by user id
    tokens,           \* every access token issued so far; tokens[i] has jti(i)
    redis,            \* the cache: key -> [value, expires]
    redis_client,     \* app.redis_client: TRUE when connected at start-up
    bigquery_client,  \* app.bigquery_client: TRUE when the warehouse client exists
    now,              \* the wall clock, in hours
    req,              \* the request handled by the last step
    resp,             \* the response to that request
    loggedOut,        \* history: the jtis whose logout wrote a revocation marker
    consecutive_failures,  \* run_continuous_monitoring's counter
    alert_threshold,  \* config['alert_threshold']
    environment,      \* the environment argument of run_continuous_monitoring
    monitor_pc,       \* "running" or "stopped"
    cycle_log,        \* the log levels emitted by the last check cycle
    history,          \* history: is_healthy of every completed cycle, oldest first
    probes,           \* the probes of the last single check: what each met and its result
    exit_code,        \* the exit code of the monitor process: <<>> while it runs
    USE_MOCK_DATA,    \* the environment variable of that name: <<>> when unset
    in_flight,        \* GET /dashboard/stats requests between cache lookup and store
    stats_log,        \* history: every answered GET /dashboard/stats, oldest first
    logoutsAnswered   \* history: the jtis whose logout was answered 200

vars == <<MOCK_USERS, MOCK_USERS_DB, tokens, redis, redis_client, bigquery_client,
          now, req, resp, loggedOut,
          consecutive_failures, alert_threshold, environment, monitor_pc,
          cycle_log, history, probes, exit_code, USE_MOCK_DATA, in_flight, stats_log, logoutsAnswered>>

webVars == <<MOCK_USERS, MOCK_USERS_DB, tokens, redis, redis_client,
             bigquery_client, now, req, resp, loggedOut>>

monitorVars == <<consecutive_failures, alert_threshold, environment, monitor_pc,
                 cycle_log, history, probes, exit_code>>

appVars == <<USE_MOCK_DATA, in_flight, stats_log, logoutsAnswered>>

-----------------------------------------------------------------------------
(* Bounds of the model *)

MaxTime == 12

TickHours == 4

MaxTokens == 2

MaxCycles == 5

MaxThreshold == 3

\* tokens issued in a run of the custom-report machine
MaxReportTokens == 1

\* GET /dashboard/stats requests in a run of the dashboard machine
MaxStatsRequests == 3

\* the dashboard machine's clock: its last tick and the seconds in a tick
MaxDashTime == 1200

DashTickSeconds == 300

\* the largest page size a search request asks for
MaxPageSizeAsked == 3

\* the number of words of the longest task description given to the registry
MaxWords == 2

\* the longest endpoint, middleware and extension lists of a Flask configuration
MaxEndpoints == 10

MaxMiddleware == 2

MaxExtensions == 3
\* the largest number of components and of state-management libraries of a
\* React project analysis
MaxComponents == 41
MaxStateLibraries == 2

-----------------------------------------------------------------------------
(* Shared helpers *)

NoTime == -1

Roles == {"GUEST", "PUBLIC", "RESEARCHER", "JOURNALIST", "ADMIN"}

\* dict.get(key, default)
Get(d, k, default) == IF k \in DOMAIN d THEN d[k] ELSE default

Range(s) == {s[i] : i \in DOMAIN s}

\* an optional input: <<>> when absent, <<x>> when present
Opt(S) == {<<>>} \cup {<<x>> : x \in S}

\* the JSON body that carries exactly the present fields of f
Body(f) == [k \in {j \in DOMAIN f : f[j] # <<>>} |-> f[k][1]]

-----------------------------------------------------------------------------
(* api/auth.py and the token manager of app.py *)

JWT_ACCESS_TOKEN_EXPIRES == 8

\* werkzeug's salted one-way digest: only the digest is stored, never the password
generate_password_hash(password) == [digest_of |-> password]

check_password_hash(pwhash, password) == pwhash = generate_password_hash(password)

SeedUser(id, email, name, password, role) ==
    [id |-> id, email |-> email, name |-> name,
     password_hash |-> generate_password_hash(password),
     role |-> role, is_active |-> TRUE, last_login |-> NoTime]

MOCK_USERS_Seed ==
    [e \in {"guest@ca-lobby.gov", "public@ca-lobby.gov", "researcher@ca-lobby.gov",
            "journalist@ca-lobby.gov", "admin@ca-lobby.gov"} |->
        CASE e = "guest@ca-lobby.gov" ->
                SeedUser("uuid-guest", e, "Guest User", "guest", "GUEST")
          [] e = "public@ca-lobby.gov" ->
                SeedUser("uuid-public", e, "Public User", "public123", "PUBLIC")
          [] e = "researcher@ca-lobby.gov" ->
                SeedUser("uuid-researcher", e, "Research Analyst", "research123", "RESEARCHER")
          [] e = "journalist@ca-lobby.gov" ->
                SeedUser("uuid-journalist", e, "Investigative Journalist", "journalist123", "JOURNALIST")
          [] e = "admin@ca-lobby.gov" ->
                SeedUser("uuid-admin", e, "System Administrator", "admin123", "ADMIN")]

\* str.lower().strip() on the e-mail spellings the model submits
lower_strip(email) ==
    CASE email = " Public@CA-Lobby.GOV " -> "public@ca-lobby.gov"
      [] email = "ADMIN@ca-lobby.gov" -> "admin@ca-lobby.gov"
      [] email = "   " -> ""
      [] OTHER -> email

get_user_by_email(users, email) ==
    IF email \in DOMAIN users THEN <<users[email]>> ELSE <<>>

update_last_login(users, email, t) ==
    IF email \in DOMAIN users
        THEN [users EXCEPT ![email].last_login = t]
        ELSE users

\* the unique token identifier: a fresh uuid per token
jti(n) == "jti-" \o ToString(n)

\* flask_jwt_extended.create_access_token under JWT_ACCESS_TOKEN_EXPIRES
create_access_token(identity, additional_claims, n, t) ==
    [jti |-> jti(n), sub |-> identity,
     email |-> additional_claims.email, role |-> additional_claims.role,
     name |-> additional_claims.name,
     iat |-> t, exp |-> t + JWT_ACCESS_TOKEN_EXPIRES]

LoginFailure(status, message, users) ==
    [status |-> status, message |-> message, users |-> users,
     token |-> <<>>, user |-> <<>>]

\* a login that compares the requested role before it checks the password
login_RoleFirst(users, data, n, t) ==
    IF DOMAIN data = {}
    THEN LoginFailure(400, "Request body is required", users)
    ELSE
    LET email == lower_strip(Get(data, "email", ""))
        password == Get(data, "password", "")
        role == Get(data, "role", "PUBLIC")
        found == get_user_by_email(users, email)
    IN  IF email = "" \/ password = ""
        THEN LoginFailure(400, "Email and password are required", users)
        ELSE IF found = <<>>
        THEN LoginFailure(401, "Invalid email or password", users)
        ELSE IF found[1].role # role
        THEN LoginFailure(403, "Invalid role for this account", users)
        ELSE IF ~check_password_hash(found[1].password_hash, password)
        THEN LoginFailure(401, "Invalid email or password", users)
        ELSE IF ~found[1].is_active
        THEN LoginFailure(403, "Account is deactivated", users)
        ELSE
        LET updated == update_last_login(users, email, t)
            user == updated[email]
        IN  [status |-> 200, message |-> "Login successful", users |-> updated,
             token |-> <<create_access_token(user.id,
                            [email |-> user.email, role |-> user.role,
                             name |-> user.name], n, t)>>,
             user |-> <<[id |-> user.id, email |-> user.email, name |-> user.name,
                         role |-> user.role, isActive |-> user.is_active,
                         lastLogin |-> user.last_login]>>]

login(users, data, n, t) ==
    IF DOMAIN data = {}
    THEN LoginFailure(400, "Request body is required", users)
    ELSE
    LET email == lower_strip(Get(data, "email", ""))
        password == Get(data, "password", "")
        role == Get(data, "role", "PUBLIC")
        found == get_user_by_email(users, email)
    IN  IF email = "" \/ password = ""
        THEN LoginFailure(400, "Email and password are required", users)
        ELSE IF found = <<>>
        THEN LoginFailure(401, "Invalid email or password", users)
        ELSE IF ~check_password_hash(found[1].password_hash, password)
        THEN LoginFailure(401, "Invalid email or password", users)
        ELSE IF ~found[1].is_active
        THEN LoginFailure(403, "Account is deactivated", users)
        ELSE IF found[1].role # role
        THEN LoginFailure(403, "Invalid role for this account", users)
        ELSE
        LET updated == update_last_login(users, email, t)
            user == updated[email]
        IN  [status |-> 200, message |-> "Login successful", users |-> updated,
             token |-> <<create_access_token(user.id,
                            [email |-> user.email, role |-> user.role,
                             name |-> user.name], n, t)>>,
             user |-> <<[id |-> user.id, email |-> user.email, name |-> user.name,
                         role |-> user.role, isActive |-> user.is_active,
                         lastLogin |-> user.last_login]>>]

\* redis GET: a key whose time to live has run out is gone
redis_get(cache, key, t) ==
    IF key \in DOMAIN cache /\ t < cache[key].expires
        THEN <<cache[key].value>> ELSE <<>>

\* redis SET key value EX ttl
redis_set(cache, key, value, ttl, t) ==
    [k \in DOMAIN cache \cup {key} |->
        IF k = key THEN [value |-> value, expires |-> t + ttl] ELSE cache[k]]

\* a check that, without a cache, treats every token as revoked
check_if_token_revoked_FailClosed(client, cache, jwt_payload, t) ==
    IF client
        THEN redis_get(cache, jwt_payload.jti, t) # <<>>
        ELSE TRUE

check_if_token_revoked(client, cache, jwt_payload, t) ==
    IF client
        THEN redis_get(cache, jwt_payload.jti, t) # <<>>
        ELSE FALSE

\* @jwt_required(): the verdict on the bearer token of a request.
\* bearer is <<>> (no Authorization header) or <<token>>.
jwt_required(client, cache, bearer, t) ==
    IF bearer = <<>> THEN "missing"
    ELSE IF t >= bearer[1].exp THEN "expired"
    ELSE IF check_if_token_revoked(client, cache, bearer[1], t) THEN "revoked"
    ELSE "ok"

\* the 401 answers of the token manager's callbacks
Unauthorized(verdict) ==
    [status |-> 401,
     message |-> CASE verdict = "missing" -> "Authorization token is required"
                   [] verdict = "expired" -> "Token has expired"
                   [] verdict = "revoked" -> "Token has been revoked"]

\* a marker that lives half as long as the token
RevocationTtl_Half == JWT_ACCESS_TOKEN_EXPIRES \div 2

\* the time to live logout gives the revocation marker
RevocationTtl == JWT_ACCESS_TOKEN_EXPIRES

\* logout, past @jwt_required(): the cache after it and its answer
logout(client, cache, claims, t) ==
    [cache |-> IF client
                THEN redis_set(cache, claims.jti, "blacklisted", RevocationTtl, t)
                ELSE cache,
     status |-> 200, message |-> "Successfully logged out"]

\* a refresh that gives the new token the identifier of the old one
refresh_token_SameJti(claims, n, t) ==
    [claims EXCEPT !.iat = t, !.exp = t + JWT_ACCESS_TOKEN_EXPIRES]

\* refresh_token, past @jwt_required(): a new token with the same claims
refresh_token(claims, n, t) ==
    create_access_token(claims.sub,
        [email |-> claims.email, role |-> claims.role, name |-> claims.name], n, t)

-----------------------------------------------------------------------------
(* api/admin.py *)

AdminUser(id, email, name, role, isActive, lastLogin, createdDate, loginCount) ==
    [id |-> id, email |-> email, name |-> name, role |-> role,
     isActive |-> isActive, lastLogin |-> lastLogin, createdDate |-> createdDate,
     loginCount |-> loginCount, updatedDate |-> NoTime, deactivatedDate |-> NoTime]

MOCK_USERS_DB_Seed ==
    [id \in {"user_1", "user_2", "user_3", "user_4"} |->
        CASE id = "user_1" ->
                AdminUser(id, "public@ca-lobby.gov", "Public User", "PUBLIC", TRUE,
                          "2024-09-15T10:30:00Z", "2024-01-15T09:00:00Z", 45)
          [] id = "user_2" ->
                AdminUser(id, "researcher@ca-lobby.gov", "Research Analyst", "RESEARCHER", TRUE,
                          "2024-09-16T08:15:00Z", "2024-02-01T14:20:00Z", 123)
          [] id = "user_3" ->
                AdminUser(id, "journalist@ca-lobby.gov", "Investigative Journalist", "JOURNALIST", TRUE,
                          "2024-09-14T16:45:00Z", "2024-03-10T11:30:00Z", 67)
          [] id = "user_4" ->
                AdminUser(id, "inactive@ca-lobby.gov", "Inactive User", "PUBLIC", FALSE,
                          "2024-08-20T12:00:00Z", "2024-01-05T10:00:00Z", 12)]

\* a gate that turns away only the GUEST role
require_admin_GuestOnly(claims) ==
    IF Get(claims, "role", "PUBLIC") = "GUEST"
        THEN <<[status |-> 403, message |-> "Administrator access required"]>>
        ELSE <<>>

\* <<>> when the caller is an administrator, else <<the 403 answer>>
require_admin(claims) ==
    IF Get(claims, "role", "PUBLIC") # "ADMIN"
        THEN <<[status |-> 403, message |-> "Administrator access required"]>>
        ELSE <<>>

AdminAnswer(db, status, message) ==
    [db |-> db, status |-> status, message |-> message]

\* the loop over updatable_fields = ['name', 'role', 'isActive']
UpdateFields(user, data) ==
    [user EXCEPT !.name = Get(data, "name", @),
                 !.role = Get(data, "role", @),
                 !.isActive = Get(data, "isActive", @)]

\* update_user, past @jwt_required()
update_user(db, claims, user_id, data, t) ==
    IF require_admin(claims) # <<>>
    THEN AdminAnswer(db, 403, require_admin(claims)[1].message)
    ELSE IF DOMAIN data = {}
    THEN AdminAnswer(db, 400, "Update data required")
    ELSE IF user_id \notin DOMAIN db
    THEN AdminAnswer(db, 404, "User not found")
    ELSE
    LET assigned == [db EXCEPT ![user_id] = UpdateFields(@, data)]
    IN  IF "role" \in DOMAIN data /\ data["role"] \notin Roles
        THEN AdminAnswer(assigned, 400, "Invalid role")
        ELSE AdminAnswer([assigned EXCEPT ![user_id].updatedDate = t],
                         200, "User updated successfully")

\* a delete that removes the record from the store
delete_user_Remove(db, claims, user_id, t) ==
    IF require_admin(claims) # <<>>
    THEN AdminAnswer(db, 403, require_admin(claims)[1].message)
    ELSE IF user_id \notin DOMAIN db
    THEN AdminAnswer(db, 404, "User not found")
    ELSE AdminAnswer([id \in DOMAIN db \ {user_id} |-> db[id]],
                     200, "User deactivated successfully")

\* delete_user, past @jwt_required()
delete_user(db, claims, user_id, t) ==
    IF require_admin(claims) # <<>>
    THEN AdminAnswer(db, 403, require_admin(claims)[1].message)
    ELSE IF user_id \notin DOMAIN db
    THEN AdminAnswer(db, 404, "User not found")
    ELSE AdminAnswer([db EXCEPT ![user_id].isActive = FALSE,
                                ![user_id].deactivatedDate = t],
                     200, "User deactivated successfully")

\* get_users with no query parameters: every user, one page
get_users(db, claims) ==
    IF require_admin(claims) # <<>>
    THEN AdminAnswer(db, 403, require_admin(claims)[1].message)
    ELSE AdminAnswer(db, 200, "users")

\* get_system_stats: the recent-login count compares an offset-aware
\* datetime (lastLogin with 'Z' replaced by '+00:00') with a naive one, which
\* raises for the first user that has a lastLogin; the handler answers 500
get_system_stats(db, claims) ==
    IF require_admin(claims) # <<>>
    THEN AdminAnswer(db, 403, require_admin(claims)[1].message)
    ELSE IF \E id \in DOMAIN db : db[id].lastLogin # ""
    THEN AdminAnswer(db, 500, "Failed to load system statistics")
    ELSE AdminAnswer(db, 200, "stats")

\* system_health_check: query_ok and ping_ok say whether the probes succeed
system_health_check(db, claims, bq, rc, query_ok, ping_ok) ==
    IF require_admin(claims) # <<>>
    THEN AdminAnswer(db, 403, require_admin(claims)[1].message)
    ELSE
    LET bigquery == IF bq THEN (IF query_ok THEN "healthy" ELSE "error") ELSE "unavailable"
        cache == IF rc THEN (IF ping_ok THEN "healthy" ELSE "error") ELSE "unavailable"
        overall_status ==
            IF bigquery = "healthy" /\ cache = "healthy" THEN "healthy"
            ELSE IF bigquery = "error" \/ cache = "error" THEN "error"
            ELSE "degraded"
    IN  AdminAnswer(db, IF overall_status = "healthy" THEN 200 ELSE 503, overall_status)

get_system_logs(db, claims) ==
    IF require_admin(claims) # <<>>
    THEN AdminAnswer(db, 403, require_admin(claims)[1].message)
    ELSE AdminAnswer(db, 200, "logs")

get_system_settings(db, claims) ==
    IF require_admin(claims) # <<>>
    THEN AdminAnswer(db, 403, require_admin(claims)[1].message)
    ELSE AdminAnswer(db, 200, "settings")

update_system_settings(db, claims, data) ==
    IF require_admin(claims) # <<>>
    THEN AdminAnswer(db, 403, require_admin(claims)[1].message)
    ELSE IF DOMAIN data = {}
    THEN AdminAnswer(db, 400, "Settings data required")
    ELSE AdminAnswer(db, 200, "Settings updated successfully")

-----------------------------------------------------------------------------
(* The web backend as a state machine: one action per request *)

NoResponse == [status |-> 0, message |-> ""]

\* the state after create_app(): the cache and the warehouse client connected or not
WebInit(cacheStates, warehouseStates) ==
    /\ MOCK_USERS = MOCK_USERS_Seed
    /\ MOCK_USERS_DB = MOCK_USERS_DB_Seed
    /\ tokens = <<>>
    /\ redis = <<>>
    /\ redis_client \in cacheStates
    /\ bigquery_client \in warehouseStates
    /\ now = 0
    /\ req = [op |-> "start"]
    /\ resp = NoResponse
    /\ loggedOut = {}

\* no mock-data flag in the environment, no dashboard request under way
AppIdle ==
    /\ USE_MOCK_DATA = <<>>
    /\ in_flight = {}
    /\ stats_log = <<>>
    /\ logoutsAnswered = {}

\* the Authorization header of a request: 0 is no token, i is tokens[i]
Bearers == 0..Len(tokens)

Bearer(b) == IF b = 0 THEN <<>> ELSE <<tokens[b]>>

Verdict(b) == jwt_required(redis_client, redis, Bearer(b), now)

\* time passes
Tick ==
    /\ now + TickHours <= MaxTime
    /\ now' = now + TickHours
    /\ req' = [op |-> "tick"]
    /\ resp' = NoResponse
    /\ UNCHANGED <<MOCK_USERS, MOCK_USERS_DB, tokens, redis, redis_client,
                   bigquery_client, loggedOut>>
    /\ UNCHANGED <<monitorVars, appVars>>

\* POST /api/auth/login
Login(data) ==
    LET r == login(MOCK_USERS, data, Len(tokens) + 1, now)
    IN  /\ r.token # <<>> => Len(tokens) < MaxTokens
        /\ MOCK_USERS' = r.users
        /\ tokens' = tokens \o r.token
        /\ req' = [op |-> "POST /auth/login", data |-> data]
        /\ resp' = [status |-> r.status, message |-> r.message,
                    token |-> r.token, user |-> r.user]
        /\ UNCHANGED <<MOCK_USERS_DB, redis, redis_client, bigquery_client,
                       now, loggedOut>>
        /\ UNCHANGED <<monitorVars, appVars>>

\* POST /api/auth/logout
Logout(b) ==
    /\ req' = [op |-> "POST /auth/logout", bearer |-> b]
    /\ IF Verdict(b) # "ok"
        THEN /\ resp' = Unauthorized(Verdict(b))
             /\ UNCHANGED <<redis, loggedOut, logoutsAnswered>>
        ELSE LET r == logout(redis_client, redis, tokens[b], now)
             IN  /\ redis' = r.cache
                 /\ resp' = [status |-> r.status, message |-> r.message]
                 /\ loggedOut' = IF redis_client /\ r.status = 200
                                    THEN loggedOut \cup {tokens[b].jti}
                                    ELSE loggedOut
                 /\ logoutsAnswered' = IF r.status = 200
                                    THEN logoutsAnswered \cup {tokens[b].jti}
                                    ELSE logoutsAnswered
    /\ UNCHANGED <<MOCK_USERS, MOCK_USERS_DB, tokens, redis_client,
                   bigquery_client, now>>
    /\ UNCHANGED <<monitorVars, USE_MOCK_DATA, in_flight, stats_log>>

\* POST /api/auth/refresh
RefreshToken(b) ==
    /\ Verdict(b) = "ok" => Len(tokens) < MaxTokens
    /\ req' = [op |-> "POST /auth/refresh", bearer |-> b]
    /\ IF Verdict(b) # "ok"
        THEN /\ resp' = Unauthorized(Verdict(b))
             /\ UNCHANGED tokens
        ELSE LET new == refresh_token(tokens[b], Len(tokens) + 1, now)
             IN  /\ tokens' = Append(tokens, new)
                 /\ resp' = [status |-> 200, message |-> "refreshed", token |-> <<new>>]
    /\ UNCHANGED <<MOCK_USERS, MOCK_USERS_DB, redis, redis_client,
                   bigquery_client, now, loggedOut>>
    /\ UNCHANGED <<monitorVars, appVars>>

\* GET /api/auth/me
GetCurrentUser(b) ==
    /\ req' = [op |-> "GET /auth/me", bearer |-> b]
    /\ resp' = IF Verdict(b) # "ok"
                THEN Unauthorized(Verdict(b))
                ELSE [status |-> 200, message |-> "me",
                      user |-> <<[id |-> tokens[b].sub, email |-> tokens[b].email,
                                  name |-> tokens[b].name, role |-> tokens[b].role,
                                  isActive |-> TRUE, lastLogin |-> now]>>]
    /\ UNCHANGED <<MOCK_USERS, MOCK_USERS_DB, tokens, redis, redis_client,
                   bigquery_client, now, loggedOut>>
    /\ UNCHANGED <<monitorVars, appVars>>

\* POST /api/auth/validate
ValidateToken(b) ==
    /\ req' = [op |-> "POST /auth/validate", bearer |-> b]
    /\ resp' = IF Verdict(b) # "ok"
                THEN Unauthorized(Verdict(b))
                ELSE [status |-> 200, message |-> "valid",
                      role |-> tokens[b].role, exp |-> tokens[b].exp]
    /\ UNCHANGED <<MOCK_USERS, MOCK_USERS_DB, tokens, redis, redis_client,
                   bigquery_client, now, loggedOut>>
    /\ UNCHANGED <<monitorVars, appVars>>

\* an admin request past @jwt_required(): answer r of the handler
AdminRequest(op, b, r) ==
    /\ req' = op
    /\ IF Verdict(b) # "ok"
        THEN /\ resp' = Unauthorized(Verdict(b))
             /\ UNCHANGED MOCK_USERS_DB
        ELSE /\ resp' = [status |-> r.status, message |-> r.message]
             /\ MOCK_USERS_DB' = r.db
    /\ UNCHANGED <<MOCK_USERS, tokens, redis, redis_client, bigquery_client,
                   now, loggedOut>>
    /\ UNCHANGED <<monitorVars, appVars>>

\* the claims a handler reads with get_jwt(); only read when the verdict is ok
Claims(b) == IF b = 0 THEN <<>> ELSE tokens[b]

\* GET /api/admin/users
GetUsers(b) ==
    AdminRequest([op |-> "GET /admin/users", bearer |-> b], b,
                 get_users(MOCK_USERS_DB, Claims(b)))

\* PUT /api/admin/users/<user_id>
UpdateUser(b, user_id, data) ==
    AdminRequest([op |-> "PUT /admin/users/<id>", bearer |-> b,
                  user_id |-> user_id, data |-> data], b,
                 update_user(MOCK_USERS_DB, Claims(b), user_id, data, now))

\* DELETE /api/admin/users/<user_id>
DeleteUser(b, user_id) ==
    AdminRequest([op |-> "DELETE /admin/users/<id>", bearer |-> b,
                  user_id |-> user_id], b,
                 delete_user(MOCK_USERS_DB, Claims(b), user_id, now))

\* GET /api/admin/system/stats
GetSystemStats(b) ==
    AdminRequest([op |-> "GET /admin/system/stats", bearer |-> b], b,
                 get_system_stats(MOCK_USERS_DB, Claims(b)))

\* GET /api/admin/system/health
SystemHealthCheck(b, query_ok, ping_ok) ==
    AdminRequest([op |-> "GET /admin/system/health", bearer |-> b], b,
                 system_health_check(MOCK_USERS_DB, Claims(b), bigquery_client,
                                     redis_client, query_ok, ping_ok))

\* GET /api/admin/logs
GetSystemLogs(b) ==
    AdminRequest([op |-> "GET /admin/logs", bearer |-> b], b,
                 get_system_logs(MOCK_USERS_DB, Claims(b)))

\* GET /api/admin/settings
GetSystemSettings(b) ==
    AdminRequest([op |-> "GET /admin/settings", bearer |-> b], b,
                 get_system_settings(MOCK_USERS_DB, Claims(b)))

\* PUT /api/admin/settings
UpdateSystemSettings(b, data) ==
    AdminRequest([op |-> "PUT /admin/settings", bearer |-> b, data |-> data], b,
                 update_system_settings(MOCK_USERS_DB, Claims(b), data))

-----------------------------------------------------------------------------
(* Inputs of the web specifications *)

LoginEmails == {"ADMIN@ca-lobby.gov", " Public@CA-Lobby.GOV ", "nobody@ca-lobby.gov"}

LoginPasswords == {"admin123", "public123"}

LoginRoles == {"ADMIN"}

LoginBodies ==
    {Body([email |-> e, password |-> p, role |-> r]) :
        e \in Opt(LoginEmails), p \in Opt(LoginPasswords), r \in Opt(LoginRoles)}

\* the logins of the administrator and of the PUBLIC user, right and wrong
AdminLoginBodies ==
    {Body([email |-> <<e>>, password |-> <<p>>, role |-> r]) :
        e \in {"admin@ca-lobby.gov", "public@ca-lobby.gov"},
        p \in {"admin123", "public123"}, r \in {<<>>, <<"ADMIN">>}}

UserIds == {"user_1", "user_9"}

UpdateBodies ==
    {<<>>,
     [name |-> "Renamed User"],
     [role |-> "RESEARCHER"],
     [role |-> "SUPERUSER"],
     [isActive |-> FALSE],
     [isActive |-> TRUE],
     [name |-> "Renamed User", role |-> "SUPERUSER", isActive |-> FALSE]}

SettingsBodies == {<<>>, [maintenanceMode |-> TRUE]}

-----------------------------------------------------------------------------
(* Spec: the session life cycle (login, logout, refresh, token checks) *)

MonitorIdle ==
    /\ consecutive_failures = 0
    /\ alert_threshold = 3
    /\ environment = <<>>
    /\ monitor_pc = "stopped"
    /\ cycle_log = <<>>
    /\ history = <<>>
    /\ probes = <<>>
    /\ exit_code = <<>>

\* the warehouse plays no part in the session routes
Init == WebInit(BOOLEAN, {FALSE}) /\ MonitorIdle /\ AppIdle

Next ==
    \/ \E data \in LoginBodies : Login(data)
    \/ \E b \in Bearers : Logout(b)
    \/ \E b \in Bearers : RefreshToken(b)
    \/ \E b \in Bearers : GetCurrentUser(b)
    \/ \E b \in Bearers : ValidateToken(b)
    \/ Tick

Spec == Init /\ [][Next]_vars

-----------------------------------------------------------------------------
(* SpecAdmin: the admin routes, with the logins that give their callers tokens *)

NextAdmin ==
    \/ \E data \in AdminLoginBodies : Login(data)
    \/ \E b \in Bearers : GetUsers(b)
    \/ \E b \in Bearers, id \in UserIds, data \in UpdateBodies : UpdateUser(b, id, data)
    \/ \E b \in Bearers, id \in UserIds : DeleteUser(b, id)
    \/ \E b \in Bearers : GetSystemStats(b)
    \/ \E b \in Bearers, query_ok \in BOOLEAN, ping_ok \in BOOLEAN :
            SystemHealthCheck(b, query_ok, ping_ok)
    \/ \E b \in Bearers : GetSystemLogs(b)
    \/ \E b \in Bearers : GetSystemSettings(b)
    \/ \E b \in Bearers, data \in SettingsBodies : UpdateSystemSettings(b, data)

InitAdmin == WebInit(BOOLEAN, BOOLEAN) /\ MonitorIdle /\ AppIdle

SpecAdmin == InitAdmin /\ [][NextAdmin]_vars

-----------------------------------------------------------------------------
(* scripts/web-health-monitor.py *)

\* load_config's default_config["endpoints"], in insertion order
ConfiguredEnvironments == <<"local", "production">>

ConfigEndpoints ==
    [env \in Range(ConfiguredEnvironments) |->
        CASE env = "local" ->
                [base_url |-> "http://localhost:5001",
                 endpoints |-> <<"/api/health", "/api/status", "/api/test-data-access">>]
          [] env = "production" ->
                [base_url |-> "https://rtest1-beta.vercel.app",
                 endpoints |-> <<"/api/health", "/api/status">>]]

DefaultAlertThreshold == 3

\* what requests.get does for one probe: it returns a response with a
\* status code, or raises Timeout, ConnectionError or another exception.
\* json_ok is FALSE for a response that announces a JSON body (content-type
\* application/json) which response.json() cannot parse.
Response(status_code) ==
    [kind |-> "response", status_code |-> status_code, json_ok |-> TRUE]

BadJsonResponse(status_code) ==
    [kind |-> "response", status_code |-> status_code, json_ok |-> FALSE]

Raised(kind) == [kind |-> kind, status_code |-> 0, json_ok |-> TRUE]

ProbeOutcomes == {Response(200), Response(201), Response(503), BadJsonResponse(200),
                  Raised("Timeout"), Raised("ConnectionError"), Raised("Exception")}

\* check_endpoint: status_code 0 and error "" stand for None.  The result
\* dictionary is built inside the try block, response.json() included, so a
\* body that does not parse is reported by the last except clause.
check_endpoint(url, outcome) ==
    CASE outcome.kind = "response" /\ outcome.json_ok ->
            [url |-> url, status_code |-> outcome.status_code,
             success |-> outcome.status_code = 200, error |-> ""]
      [] outcome.kind = "Timeout" ->
            [url |-> url, status_code |-> 0, success |-> FALSE, error |-> "TIMEOUT"]
      [] outcome.kind = "ConnectionError" ->
            [url |-> url, status_code |-> 0, success |-> FALSE,
             error |-> "CONNECTION_ERROR"]
      [] OTHER ->
            [url |-> url, status_code |-> 0, success |-> FALSE, error |-> "str(e)"]

\* healthy as soon as one endpoint answers
check_environment_AnyHealthy(env_name, outcomes) ==
    IF env_name \notin DOMAIN ConfigEndpoints
    THEN [healthy |-> FALSE, log |-> <<"ERROR">>, probes |-> <<>>]
    ELSE
    LET env_config == ConfigEndpoints[env_name]
        results == [i \in 1..Len(env_config.endpoints) |->
                        check_endpoint(env_config.base_url, outcomes[i])]
    IN  [healthy |-> \E i \in DOMAIN results : results[i].success,
         log |-> <<"INFO">>
                 \o [i \in DOMAIN results |->
                        IF results[i].success THEN "SUCCESS" ELSE "ERROR"]
                 \o <<"INFO">>,
         probes |-> [i \in DOMAIN results |->
                        [env |-> env_name, met |-> outcomes[i], result |-> results[i]]]]

\* check_environment: outcomes[i] is what the probe of the i-th endpoint meets.
\* The answer is all_healthy, the levels of the events logged and the probes
\* made.
check_environment(env_name, outcomes) ==
    IF env_name \notin DOMAIN ConfigEndpoints
    THEN [healthy |-> FALSE, log |-> <<"ERROR">>, probes |-> <<>>]
    ELSE
    LET env_config == ConfigEndpoints[env_name]
        results == [i \in 1..Len(env_config.endpoints) |->
                        check_endpoint(env_config.base_url, outcomes[i])]
    IN  [healthy |-> \A i \in DOMAIN results : results[i].success,
         log |-> <<"INFO">>
                 \o [i \in DOMAIN results |->
                        IF results[i].success THEN "SUCCESS" ELSE "ERROR"]
                 \o <<"INFO">>,
         probes |-> [i \in DOMAIN results |->
                        [env |-> env_name, met |-> outcomes[i], result |-> results[i]]]]

\* the number of probes a check of env_name makes
ProbeCount(env_name) ==
    IF env_name \in DOMAIN ConfigEndpoints
        THEN Len(ConfigEndpoints[env_name].endpoints) ELSE 0

RECURSIVE CheckEnvironments(_, _)
\* the loop of run_single_check over environments, overall_health and the log
CheckEnvironments(environments, outcomes) ==
    IF environments = <<>>
    THEN [healthy |-> TRUE, log |-> <<>>, probes |-> <<>>]
    ELSE
    LET n == ProbeCount(Head(environments))
        first == check_environment(Head(environments), SubSeq(outcomes, 1, n))
        rest == CheckEnvironments(Tail(environments),
                                  SubSeq(outcomes, n + 1, Len(outcomes)))
    IN  [healthy |-> first.healthy /\ rest.healthy, log |-> first.log \o rest.log,
         probes |-> first.probes \o rest.probes]

\* environment is <<>> (None: every configured environment) or <<name>>
EnvironmentsOf(env) == IF env # <<>> THEN env ELSE ConfiguredEnvironments

run_single_check(env, outcomes) ==
    CheckEnvironments(EnvironmentsOf(env), outcomes)

RECURSIVE TotalProbes(_)
TotalProbes(environments) ==
    IF environments = <<>> THEN 0
    ELSE ProbeCount(Head(environments)) + TotalProbes(Tail(environments))

\* an alert only in the cycle in which the counter reaches the threshold
cycle_end_AlertAtCrossingOnly(failures, threshold, is_healthy) ==
    IF is_healthy
    THEN [consecutive_failures |-> 0, log |-> <<>>]
    ELSE [consecutive_failures |-> failures + 1,
          log |-> IF failures + 1 = threshold THEN <<"ALERT">> ELSE <<>>]

\* the end of one pass of the monitoring loop: the counter and the alert
cycle_end(failures, threshold, is_healthy) ==
    IF is_healthy
    THEN [consecutive_failures |-> 0, log |-> <<>>]
    ELSE [consecutive_failures |-> failures + 1,
          log |-> IF failures + 1 >= threshold THEN <<"ALERT">> ELSE <<>>]

\* run_continuous_monitoring starts: two INFO lines
MonitorInit ==
    /\ consecutive_failures = 0
    /\ alert_threshold \in 1..MaxThreshold
    /\ environment \in {<<>>, <<"local">>, <<"production">>, <<"staging">>}
    /\ monitor_pc = "running"
    /\ cycle_log = <<"INFO", "INFO">>
    /\ history = <<>>
    /\ probes = <<>>
    /\ exit_code = <<>>

\* the probes this cycle meets: one outcome for each probe the cycle makes
\* (a healthy answer, an unhealthy answer and a probe that raises)
CycleProbeOutcomes == {Response(200), Response(503), Raised("Timeout")}

CycleOutcomes == [1..TotalProbes(EnvironmentsOf(environment)) -> CycleProbeOutcomes]

\* one pass of the while loop
CheckCycle(outcomes) ==
    /\ monitor_pc = "running"
    /\ Len(history) < MaxCycles
    /\ LET check == run_single_check(environment, outcomes)
           end == cycle_end(consecutive_failures, alert_threshold, check.healthy)
       IN  /\ consecutive_failures' = end.consecutive_failures
           /\ cycle_log' = check.log \o end.log
           /\ history' = Append(history, check.healthy)
    /\ UNCHANGED <<alert_threshold, environment, monitor_pc, probes, exit_code>>
    /\ UNCHANGED <<webVars, appVars>>

\* KeyboardInterrupt: "Monitoring stopped by user"
Interrupt ==
    /\ monitor_pc = "running"
    /\ monitor_pc' = "stopped"
    /\ cycle_log' = <<"INFO">>
    /\ UNCHANGED <<consecutive_failures, alert_threshold, environment, history,
                   probes, exit_code>>
    /\ UNCHANGED <<webVars, appVars>>

\* the exception handled inside the loop: logged, and the loop goes on
CycleRaises_Continues ==
    /\ monitor_pc = "running"
    /\ monitor_pc' = "running"
    /\ cycle_log' = <<"ERROR">>
    /\ UNCHANGED <<consecutive_failures, alert_threshold, environment, history,
                   probes, exit_code>>
    /\ UNCHANGED <<webVars, appVars>>

\* an exception escapes the cycle (log_event cannot write its file):
\* "Monitoring failed", and the loop is left
CycleRaises ==
    /\ monitor_pc = "running"
    /\ monitor_pc' = "stopped"
    /\ cycle_log' = <<"ERROR">>
    /\ UNCHANGED <<consecutive_failures, alert_threshold, environment, history,
                   probes, exit_code>>
    /\ UNCHANGED <<webVars, appVars>>

InitMonitor == WebInit({FALSE}, {FALSE}) /\ MonitorInit /\ AppIdle

NextMonitor ==
    \/ \E outcomes \in CycleOutcomes : CheckCycle(outcomes)
    \/ Interrupt
    \/ CycleRaises

SpecMonitor == InitMonitor /\ [][NextMonitor]_vars

\* main with --single: one run_single_check, then sys.exit(0 if success else 1)
SingleCheck(outcomes) ==
    /\ monitor_pc = "main"
    /\ LET check == run_single_check(environment, outcomes)
       IN  /\ history' = <<check.healthy>>
           /\ cycle_log' = check.log
           /\ probes' = check.probes
           /\ exit_code' = <<IF check.healthy THEN 0 ELSE 1>>
    /\ monitor_pc' = "exited"
    /\ UNCHANGED <<consecutive_failures, alert_threshold, environment>>
    /\ UNCHANGED <<webVars, appVars>>

SingleOutcomes == [1..TotalProbes(EnvironmentsOf(environment)) -> ProbeOutcomes]

\* the monitor constructed, about to run one check of the environment given
\* (<<>>: --environment all)
InitSingle ==
    /\ WebInit({FALSE}, {FALSE})
    /\ AppIdle
    /\ consecutive_failures = 0
    /\ alert_threshold = DefaultAlertThreshold
    /\ environment \in {<<>>, <<"local">>, <<"production">>, <<"staging">>}
    /\ monitor_pc = "main"
    /\ cycle_log = <<>>
    /\ history = <<>>
    /\ probes = <<>>
    /\ exit_code = <<>>

NextSingle == \E outcomes \in SingleOutcomes : SingleCheck(outcomes)

SpecSingle == InitSingle /\ [][NextSingle]_vars

-----------------------------------------------------------------------------
(* api/export.py *)

\* float('inf'), ADMIN's max_rows
Infinity == -1

\* row_count > max_rows
Exceeds(row_count, max_rows) == max_rows # Infinity /\ row_count > max_rows

AllFormats == {"CSV", "PDF", "JSON", "EXCEL"}

export_limits ==
    [role \in Roles |->
        CASE role = "GUEST" -> [max_rows |-> 0, formats |-> {}]
          [] role = "PUBLIC" -> [max_rows |-> 1000, formats |-> {"CSV", "JSON"}]
          [] role = "RESEARCHER" -> [max_rows |-> 10000, formats |-> AllFormats]
          [] role = "JOURNALIST" -> [max_rows |-> 50000, formats |-> AllFormats]
          [] role = "ADMIN" -> [max_rows |-> Infinity, formats |-> AllFormats]]

\* a row limit that turns away a request of exactly max_rows rows
check_export_permissions_Strict(user_role, row_count) ==
    LET limits == Get(export_limits, user_role, export_limits["GUEST"])
    IN  IF limits.max_rows # Infinity /\ row_count >= limits.max_rows
            THEN [can_export |-> FALSE, error_msg |-> "Row limit exceeded"]
            ELSE [can_export |-> TRUE, error_msg |-> ""]

check_export_permissions(user_role, row_count) ==
    LET limits == Get(export_limits, user_role, export_limits["GUEST"])
    IN  IF Exceeds(row_count, limits.max_rows)
            THEN [can_export |-> FALSE, error_msg |-> "Row limit exceeded"]
            ELSE [can_export |-> TRUE, error_msg |-> ""]

format_permissions ==
    [role \in Roles |->
        CASE role = "GUEST" -> {}
          [] role = "PUBLIC" -> {"CSV", "JSON"}
          [] OTHER -> AllFormats]

check_format_permission(user_role, format_type) ==
    format_type \in Get(format_permissions, user_role, {})

\* str.upper() on the format spellings the model submits
format_upper(format) ==
    CASE format = "csv" -> "CSV"
      [] format = "Excel" -> "EXCEL"
      [] format = "xml" -> "XML"
      [] OTHER -> format

\* export_to_csv, export_to_json, export_to_excel, export_to_pdf: the file
\* of row_count well-formed rows; PDF is CSV content under a .csv name
Render(format_type, row_count) ==
    CASE format_type = "CSV" ->
            [content |-> "csv", rows |-> row_count, suffix |-> ".csv", mimetype |-> "text/csv"]
      [] format_type = "JSON" ->
            [content |-> "json", rows |-> row_count, suffix |-> ".json",
             mimetype |-> "application/json"]
      [] format_type = "EXCEL" ->
            [content |-> "xlsx", rows |-> row_count, suffix |-> ".xlsx",
             mimetype |-> "application/vnd.openxmlformats-officedocument.spreadsheetml.sheet"]
      [] format_type = "PDF" ->
            [content |-> "csv", rows |-> row_count, suffix |-> ".csv", mimetype |-> "text/csv"]

ExportAnswer(status, message, file) ==
    [status |-> status, message |-> message, file |-> file]

\* export_data, past @jwt_required().  data["data"] is the number of rows of
\* the row array; file is <<>> or <<the file sent>>.
export_data(claims, data) ==
    LET user_role == Get(claims, "role", "PUBLIC")
    IN  IF DOMAIN data = {}
        THEN ExportAnswer(400, "Export data and options required", <<>>)
        ELSE
        LET row_count == Get(data, "data", 0)
            options == Get(data, "options", <<>>)
            format_type == format_upper(Get(options, "format", "CSV"))
            permission == check_export_permissions(user_role, row_count)
        IN  IF ~check_format_permission(user_role, format_type)
            THEN ExportAnswer(403, "Format not allowed", <<>>)
            ELSE IF ~permission.can_export
            THEN ExportAnswer(403, permission.error_msg, <<>>)
            ELSE IF format_type \in AllFormats
            THEN ExportAnswer(200, "file", <<Render(format_type, row_count)>>)
            ELSE ExportAnswer(400, "Unsupported format", <<>>)

\* POST /api/export/
ExportData(b, data) ==
    /\ req' = [op |-> "POST /export/", bearer |-> b, data |-> data]
    /\ resp' = IF Verdict(b) # "ok"
                THEN Unauthorized(Verdict(b))
                ELSE export_data(Claims(b), data)
    /\ UNCHANGED <<MOCK_USERS, MOCK_USERS_DB, tokens, redis, redis_client,
                   bigquery_client, now, loggedOut>>
    /\ UNCHANGED <<monitorVars, appVars>>

\* a JSON value that is a number, and one that is a string
JsonNumber(n) == [type |-> "number", number |-> n, string |-> ""]
JsonString(str) == [type |-> "string", number |-> 0, string |-> str]

\* get_export_limits (limits): maxExportsPerDay of each role, -1 for no limit
maxExportsPerDay ==
    [role \in Roles |->
        CASE role = "GUEST" -> 0
          [] role = "PUBLIC" -> 5
          [] role = "RESEARCHER" -> 20
          [] role = "JOURNALIST" -> -1
          [] role = "ADMIN" -> -1]

\* get_export_limits, past @jwt_required(optional=True): claims is {} when
\* the request carries no token
get_export_limits(claims) ==
    LET user_role == IF DOMAIN claims # {} THEN Get(claims, "role", "GUEST") ELSE "GUEST"
        user_limits == [maxRows |-> Get(export_limits, user_role, export_limits["GUEST"]).max_rows,
                        maxExportsPerDay |-> Get(maxExportsPerDay, user_role, maxExportsPerDay["GUEST"]),
                        allowedFormats |-> Get(export_limits, user_role, export_limits["GUEST"]).formats]
    IN  [status |-> 200, message |-> "",
         role |-> user_role,
         limits |-> user_limits,
         exportHistory |->
            [todayCount |-> 0,
             remainingToday |-> IF user_limits.maxExportsPerDay > 0
                                 THEN JsonNumber(user_limits.maxExportsPerDay)
                                 ELSE JsonString("Unlimited")]]

\* GET /api/export/limits: a request without a token passes
\* @jwt_required(optional=True), one with a bad token does not
GetExportLimits(b) ==
    /\ req' = [op |-> "GET /export/limits", bearer |-> b]
    /\ resp' = IF Verdict(b) \in {"ok", "missing"}
                THEN get_export_limits(Claims(b))
                ELSE Unauthorized(Verdict(b))
    /\ UNCHANGED <<MOCK_USERS, MOCK_USERS_DB, tokens, redis, redis_client,
                   bigquery_client, now, loggedOut>>
    /\ UNCHANGED <<monitorVars, appVars>>

\* the five seeded users log in with their own password and role
SeedLoginBodies ==
    {[email |-> "guest@ca-lobby.gov", password |-> "guest", role |-> "GUEST"],
     [email |-> "public@ca-lobby.gov", password |-> "public123", role |-> "PUBLIC"],
     [email |-> "researcher@ca-lobby.gov", password |-> "research123", role |-> "RESEARCHER"],
     [email |-> "journalist@ca-lobby.gov", password |-> "journalist123", role |-> "JOURNALIST"],
     [email |-> "admin@ca-lobby.gov", password |-> "admin123", role |-> "ADMIN"]}

ExportFormats == {"CSV", "PDF", "JSON", "EXCEL", "csv", "Excel", "xml"}

\* row counts on both sides of every role's limit
ExportRowCounts == {0, 1, 1000, 1001, 10000, 10001, 50000, 50001, 1000000}

ExportBodies ==
    {<<>>}
    \cup {[data |-> n, options |-> Body([format |-> f])] :
            n \in ExportRowCounts, f \in Opt(ExportFormats)}
    \cup {[options |-> [format |-> f]] : f \in {"CSV", "EXCEL"}}

InitExport == WebInit({TRUE}, {FALSE}) /\ MonitorIdle /\ AppIdle

NextExport ==
    \/ \E data \in SeedLoginBodies : Login(data)
    \/ \E b \in Bearers, data \in ExportBodies : ExportData(b, data)
    \/ \E b \in Bearers : GetExportLimits(b)

SpecExport == InitExport /\ [][NextExport]_vars

-----------------------------------------------------------------------------
(* api/reports.py.  A query text is a sequence of one-character strings. *)

LowerLetters == <<"a", "b", "c", "d", "e", "f", "g", "h", "i", "j", "k", "l", "m", "n", "o", "p", "q", "r", "s", "t", "u", "v", "w", "x", "y", "z">>

UpperLetters == <<"A", "B", "C", "D", "E", "F", "G", "H", "I", "J", "K", "L", "M", "N", "O", "P", "Q", "R", "S", "T", "U", "V", "W", "X", "Y", "Z">>

upper_char(c) ==
    IF \E i \in DOMAIN LowerLetters : LowerLetters[i] = c
        THEN UpperLetters[CHOOSE i \in DOMAIN LowerLetters : LowerLetters[i] = c]
        ELSE c

lower_char(c) ==
    IF \E i \in DOMAIN UpperLetters : UpperLetters[i] = c
        THEN LowerLetters[CHOOSE i \in DOMAIN UpperLetters : UpperLetters[i] = c]
        ELSE c

\* str.upper() and str.lower()
upper(text) == [i \in DOMAIN text |-> upper_char(text[i])]

lower(text) == [i \in DOMAIN text |-> lower_char(text[i])]

\* `needle in text`
Contains(text, needle) ==
    \E i \in 1..(Len(text) - Len(needle) + 1) :
        SubSeq(text, i, i + Len(needle) - 1) = needle

RECURSIVE replace(_, _, _)
\* str.replace(old, new): every occurrence, left to right, not overlapping
replace(text, old, new) ==
    IF old = <<>> \/ Len(text) < Len(old) THEN text
    ELSE IF SubSeq(text, 1, Len(old)) = old
    THEN new \o replace(SubSeq(text, Len(old) + 1, Len(text)), old, new)
    ELSE <<Head(text)>> \o replace(Tail(text), old, new)

dangerous_keywords ==
    <<<<"D", "R", "O", "P">>,
      <<"D", "E", "L", "E", "T", "E">>,
      <<"U", "P", "D", "A", "T", "E">>,
      <<"I", "N", "S", "E", "R", "T">>,
      <<"A", "L", "T", "E", "R">>,
      <<"C", "R", "E", "A", "T", "E">>,
      <<"T", "R", "U", "N", "C", "A", "T", "E">>,
      <<"E", "X", "E", "C">>,
      <<"E", "X", "E", "C", "U", "T", "E">>,
      <<"S", "C", "R", "I", "P", "T">>,
      <<"M", "E", "R", "G", "E">>>>

\* a screen that compares the query as written, without upper-casing it
is_query_safe_CaseSensitive(query) ==
    ~\E k \in DOMAIN dangerous_keywords : Contains(query, dangerous_keywords[k])

\* a screen whose list also holds SELECT
is_query_safe_NoSelect(query) ==
    /\ ~\E k \in DOMAIN dangerous_keywords : Contains(upper(query), dangerous_keywords[k])
    /\ ~Contains(upper(query), <<"S", "E", "L", "E", "C", "T">>)

is_query_safe(query) ==
    LET query_upper == upper(query)
    IN  ~\E k \in DOMAIN dangerous_keywords : Contains(query_upper, dangerous_keywords[k])

\* generate_mock_report_data: which of the four fixed row sets
generate_mock_report_data(query) ==
    IF Contains(lower(query), <<"c", "o", "u", "n", "t", "y">>) THEN "county rows"
    ELSE IF Contains(lower(query), <<"q", "u", "a", "r", "t", "e", "r", "l", "y">>)
            \/ Contains(lower(query), <<"q", "u", "a", "r", "t", "e", "r">>) THEN "quarter rows"
    ELSE IF Contains(lower(query), <<"f", "i", "r", "m">>) THEN "firm rows"
    ELSE "sample rows"

RECURSIVE Substitute(_, _)
\* the loop over parameters.items(): each $key replaced by its value, in order
Substitute(query, parameters) ==
    IF parameters = <<>> THEN query
    ELSE Substitute(replace(query, <<"$">> \o Head(parameters).key, Head(parameters).value),
                    Tail(parameters))

\* execute_report_query: the rows returned and the query text sent to the
\* warehouse (<<>> when none is sent); query_ok says whether the warehouse
\* answers the query or raises
execute_report_query(bq, query, parameters, query_ok) ==
    IF ~bq
    THEN [rows |-> generate_mock_report_data(query), sent |-> <<>>]
    ELSE
    LET formatted_query == Substitute(query, parameters)
    IN  IF query_ok
        THEN [rows |-> "warehouse rows", sent |-> <<formatted_query>>]
        ELSE [rows |-> generate_mock_report_data(query), sent |-> <<formatted_query>>]

ReportAnswer(status, message, rows, sent) ==
    [status |-> status, message |-> message, rows |-> rows, sent |-> sent]

\* generate_custom_report, past @jwt_required()
generate_custom_report(claims, data, bq, query_ok) ==
    LET user_role == Get(claims, "role", "PUBLIC")
    IN  IF user_role \notin {"RESEARCHER", "JOURNALIST", "ADMIN"}
        THEN ReportAnswer(403, "Insufficient permissions for custom reports", "", <<>>)
        ELSE IF DOMAIN data = {}
        THEN ReportAnswer(400, "Report configuration required", "", <<>>)
        ELSE
        LET query == Get(data, "query", <<>>)
            parameters == Get(data, "parameters", <<>>)
        IN  IF query = <<>>
            THEN ReportAnswer(400, "SQL query is required", "", <<>>)
            ELSE IF ~is_query_safe(query)
            THEN ReportAnswer(400, "Query contains unsafe operations", "", <<>>)
            ELSE
            LET report_data == execute_report_query(bq, query, parameters, query_ok)
            IN  ReportAnswer(200, "report", report_data.rows, report_data.sent)

\* POST /api/reports/custom/generate
GenerateCustomReport(b, data, query_ok) ==
    /\ req' = [op |-> "POST /reports/custom/generate", bearer |-> b, data |-> data]
    /\ resp' = IF Verdict(b) # "ok"
                THEN Unauthorized(Verdict(b))
                ELSE generate_custom_report(Claims(b), data, bigquery_client, query_ok)
    /\ UNCHANGED <<MOCK_USERS, MOCK_USERS_DB, tokens, redis, redis_client,
                   bigquery_client, now, loggedOut>>
    /\ UNCHANGED <<monitorVars, appVars>>

\* a keyword in upper case, in lower case and in mixed case
mixed(text) == [i \in DOMAIN text |-> IF i % 2 = 1 THEN lower_char(text[i]) ELSE text[i]]

KeywordSpellings ==
    UNION {{dangerous_keywords[k], lower(dangerous_keywords[k]), mixed(dangerous_keywords[k])} :
            k \in DOMAIN dangerous_keywords}

\* a keyword as a statement of its own and inside a quoted string of a SELECT
KeywordQueries ==
    {w \o <<" ", "T", "A", "B", "L", "E", " ", "t">> : w \in KeywordSpellings}
    \cup {<<"S", "E", "L", "E", "C", "T", " ", "'">> \o w \o <<"'", " ", "A", "S", " ", "c">> : w \in KeywordSpellings}

\* queries made of SELECT clauses only; the last two name the columns
\* created_at and updated_at
SelectOnlyQueries ==
    {<<"S", "E", "L", "E", "C", "T", " ", "1">>,
     <<"s", "e", "l", "e", "c", "t", " ", "n", "a", "m", "e", " ", "f", "r", "o", "m", " ", "f", "i", "r", "m">>,
     <<"S", "E", "L", "E", "C", "T", " ", "c", "o", "u", "n", "t", "y", " ", "A", "S", " ", "c", " ", "F", "R", "O", "M", " ", "t">>,
     <<"S", "E", "L", "E", "C", "T", " ", "c", "r", "e", "a", "t", "e", "d", "_", "a", "t", " ", "F", "R", "O", "M", " ", "t">>,
     <<"S", "E", "L", "E", "C", "T", " ", "u", "p", "d", "a", "t", "e", "d", "_", "a", "t", " ", "A", "S", " ", "u", " ", "F", "R", "O", "M", " ", "t">>}

ReportQueries == KeywordQueries \cup SelectOnlyQueries

\* a SELECT with a $name parameter, and the values submitted for it
ParameterQuery == <<"S", "E", "L", "E", "C", "T", " ", "$", "c", " ", "F", "R", "O", "M", " ", "t">>

ParameterValues == {<<"n", "a", "m", "e">>, <<"1", ";", " ", "D", "R", "O", "P", " ", "T", "A", "B", "L", "E", " ", "t">>}

ReportBodies ==
    {<<>>, [name |-> "Untitled Report"]}
    \cup {[query |-> q] : q \in ReportQueries}
    \cup {[query |-> ParameterQuery,
           parameters |-> <<[key |-> <<"c">>, value |-> v]>>] : v \in ParameterValues}

InitReports == WebInit({TRUE}, BOOLEAN) /\ MonitorIdle /\ AppIdle

NextReports ==
    \/ \E data \in SeedLoginBodies : Len(tokens) < MaxReportTokens /\ Login(data)
    \/ \E b \in Bearers, data \in ReportBodies,
          query_ok \in (IF bigquery_client THEN BOOLEAN ELSE {TRUE}) :
            GenerateCustomReport(b, data, query_ok)

SpecReports == InitReports /\ [][NextReports]_vars

-----------------------------------------------------------------------------
(* api/dashboard.py: GET /api/dashboard/stats.  In this machine the clock   *)
(* counts seconds.  A request that finds no cache entry computes the        *)
(* aggregate and stores it in a later step, so that requests overlap.       *)

\* cache_stats(stats_data, ttl=900)
STATS_TTL == 900

\* the spacing of the mock activity entries: two days and three hours
MockActivitySpacing == 2 * 86400 + 3 * 3600

\* generate_mock_stats at base_date = t
generate_mock_stats(t) ==
    [totalFilings |-> 15420, totalPayments |-> 45670000, activeLobbyists |-> 1247,
     latestPeriod |-> "2024-Q3",
     recentActivity |-> [i \in 1..8 |->
        [id |-> "activity_" \o ToString(i - 1),
         timestamp |-> t - (i - 1) * MockActivitySpacing]]]

\* what the five warehouse queries return when they run: the aggregate at
\* that moment
WarehouseStats(total_filings) ==
    [totalFilings |-> total_filings, totalPayments |-> 1250000, activeLobbyists |-> 310,
     latestPeriod |-> "2024-09-30", recentActivity |-> <<>>]

\* <<>> when a query raises
WarehouseResults == {<<>>, <<WarehouseStats(15000)>>, <<WarehouseStats(15001)>>}

execute_bigquery_stats(bq, result, t) ==
    IF ~bq THEN generate_mock_stats(t)
    ELSE IF result = <<>> THEN generate_mock_stats(t)
    ELSE result[1]

\* json.dumps(stats, default=str) and json.loads: the aggregate holds
\* integers, floats, strings and lists of them only, which the text form
\* gives back unchanged
json_dumps(stats) == [json_text_of |-> stats]

json_loads(text) == text.json_text_of

\* get_cached_stats: <<>> is None
get_cached_stats(client, cache, t) ==
    IF ~client THEN <<>>
    ELSE LET cached_data == redis_get(cache, "dashboard_stats", t)
         IN  IF cached_data # <<>> THEN <<json_loads(cached_data[1])>> ELSE <<>>

\* cache_stats: a setex, whatever the cache holds by then
cache_stats(client, cache, stats_data, t) ==
    IF ~client THEN cache
    ELSE redis_set(cache, "dashboard_stats", json_dumps(stats_data), STATS_TTL, t)

StatsAnswer(id, began, cached, data) ==
    [id |-> id, began |-> began, cached |-> cached, data |-> data, at |-> now,
     stored |-> ~cached /\ redis_client]

StatsRequestsStarted == Len(stats_log) + Cardinality(in_flight)

\* get_dashboard_stats up to the cache lookup: a hit is answered at once, a
\* miss goes on to compute the aggregate
StatsLookup ==
    LET id == StatsRequestsStarted + 1
        cached_stats == get_cached_stats(redis_client, redis, now)
    IN  /\ StatsRequestsStarted < MaxStatsRequests
        /\ req' = [op |-> "GET /dashboard/stats", id |-> id]
        /\ IF cached_stats # <<>>
            THEN /\ resp' = [status |-> 200, cached |-> TRUE, data |-> cached_stats[1]]
                 /\ stats_log' = Append(stats_log,
                        StatsAnswer(id, Len(stats_log), TRUE, cached_stats[1]))
                 /\ UNCHANGED in_flight
            ELSE /\ resp' = [status |-> 0, message |-> "computing"]
                 /\ in_flight' = in_flight \cup {[id |-> id, began |-> Len(stats_log)]}
                 /\ UNCHANGED stats_log
        /\ UNCHANGED <<MOCK_USERS, MOCK_USERS_DB, tokens, redis, redis_client,
                       bigquery_client, now, loggedOut, USE_MOCK_DATA, logoutsAnswered>>
        /\ UNCHANGED monitorVars

\* the rest of get_dashboard_stats after a miss: execute_bigquery_stats,
\* cache_stats and the answer with cached: false
StatsStore(r, result) ==
    LET stats == execute_bigquery_stats(bigquery_client, result, now)
    IN  /\ r \in in_flight
        /\ req' = [op |-> "GET /dashboard/stats", id |-> r.id]
        /\ redis' = cache_stats(redis_client, redis, stats, now)
        /\ resp' = [status |-> 200, cached |-> FALSE, data |-> stats]
        /\ stats_log' = Append(stats_log, StatsAnswer(r.id, r.began, FALSE, stats))
        /\ in_flight' = in_flight \ {r}
        /\ UNCHANGED <<MOCK_USERS, MOCK_USERS_DB, tokens, redis_client,
                       bigquery_client, now, loggedOut, USE_MOCK_DATA, logoutsAnswered>>
        /\ UNCHANGED monitorVars

\* the clock of the dashboard machine moves on
DashTick ==
    /\ now < MaxDashTime
    /\ now' = now + DashTickSeconds
    /\ UNCHANGED <<MOCK_USERS, MOCK_USERS_DB, tokens, redis, redis_client,
                   bigquery_client, req, resp, loggedOut>>
    /\ UNCHANGED <<monitorVars, appVars>>

InitDashboard == WebInit(BOOLEAN, BOOLEAN) /\ MonitorIdle /\ AppIdle

NextDashboard ==
    \/ StatsLookup
    \/ \E r \in in_flight, result \in WarehouseResults : StatsStore(r, result)
    \/ DashTick

SpecDashboard == InitDashboard /\ [][NextDashboard]_vars

-----------------------------------------------------------------------------
(* api/search.py.  The warehouse holds two tables; a query the handlers     *)
(* build is modelled by the rows it selects from them.  Names are sequences *)
(* of one-character strings, dates are day numbers, amounts whole dollars.  *)

\* `ca-lobby.ca_lobby.cvr_lobby_disclosure_cd`: filing 2001 was filed on day
\* 100 and amended on day 200 under a changed filer name; filing 2002 was
\* filed once
cvr_lobby_disclosure_cd ==
    {[filing_id |-> "2001", amend_id |-> 0, filer_naml |-> <<"A", "c", "m", "e", " ", "O", "n", "e">>,
      firm_name |-> <<"C", "a", "p", "i", "t", "o", "l">>, rpt_date |-> 100, from_date |-> 1, thru_date |-> 90],
     [filing_id |-> "2001", amend_id |-> 1, filer_naml |-> <<"A", "c", "m", "e", " ", "T", "w", "o">>,
      firm_name |-> <<"C", "a", "p", "i", "t", "o", "l">>, rpt_date |-> 200, from_date |-> 1, thru_date |-> 90],
     [filing_id |-> "2002", amend_id |-> 0, filer_naml |-> <<"B", "e", "t", "a">>,
      firm_name |-> <<>>, rpt_date |-> 150, from_date |-> 91, thru_date |-> 180]}

\* `ca-lobby.ca_lobby.lpay_cd`: the payment lines of filing 2001
lpay_cd ==
    {[filing_id |-> "2001", line_item |-> "1", emplr_naml |-> <<"W", "a", "t", "e", "r">>,
      fees_amt |-> 5000, reimb_amt |-> 0, advan_amt |-> 0, advan_dscr |-> "",
      per_total |-> 5000, cum_total |-> 9000],
     [filing_id |-> "2001", line_item |-> "2", emplr_naml |-> <<"M", "e", "t", "r", "o">>,
      fees_amt |-> 0, reimb_amt |-> 300, advan_amt |-> 0, advan_dscr |-> "",
      per_total |-> 300, cum_total |-> 300]}

\* params.get(key) is truthy
Given(params, key) == key \in DOMAIN params

\* UPPER(column) LIKE UPPER('%pattern%')
Like(value, pattern) == Contains(upper(value), upper(pattern))

RECURSIVE SumOver(_, _)
\* SUM(column) over a set of rows
SumOver(rows, column) ==
    IF rows = {} THEN 0
    ELSE LET r == CHOOSE x \in rows : TRUE
         IN  r[column] + SumOver(rows \ {r}, column)

\* fees + reimbursements + advances of one payment line
LineAmount(pay) == pay.fees_amt + pay.reimb_amt + pay.advan_amt

RECURSIVE OrderBy(_, _)
\* ORDER BY a DESC, b DESC: the rows as a sequence, greatest first; the
\* column holds the pair <<a, b>>.  The tables give no two rows the same pair.
OrderBy(rows, column) ==
    IF rows = {} THEN <<>>
    ELSE LET first == CHOOSE x \in rows : \A y \in rows \ {x} :
                        \/ x[column][1] > y[column][1]
                        \/ x[column][1] = y[column][1] /\ x[column][2] >= y[column][2]
         IN  <<first>> \o OrderBy(rows \ {first}, column)

\* LIMIT pageSize OFFSET (page - 1) * pageSize
LimitOffset(rows, pagination) ==
    LET offset == (pagination.page - 1) * pagination.pageSize
        last == IF offset + pagination.pageSize < Len(rows)
                    THEN offset + pagination.pageSize ELSE Len(rows)
    IN  SubSeq(rows, offset + 1, last)

\* the WHERE conditions build_entity_search_query appends, on a cvr row
EntityConditions(params, cvr) ==
    /\ Given(params, "filerName") => Like(cvr.filer_naml, params["filerName"])
    /\ Given(params, "firmName") => Like(cvr.firm_name, params["firmName"])
    /\ Given(params, "employerName") =>
            \E pay \in lpay_cd : /\ pay.filing_id = cvr.filing_id
                                 /\ Like(pay.emplr_naml, params["employerName"])
    /\ Given(params, "registrationDateFrom") => cvr.rpt_date >= params["registrationDateFrom"]
    /\ Given(params, "registrationDateTo") => cvr.rpt_date <= params["registrationDateTo"]
    /\ Given(params, "counties") =>
            \E i \in DOMAIN params["counties"] : Like(cvr.filer_naml, params["counties"][i])

\* the rows the query of build_entity_search_query selects: the conditions
\* filter the joined rows, ROW_NUMBER() ranks what is left within each
\* filing_id by amend_id descending, and the rows of rank 1 are kept
build_entity_search_query(params, pagination) ==
    LET base_data == {cvr \in cvr_lobby_disclosure_cd : EntityConditions(params, cvr)}
        row_num(cvr) == 1 + Cardinality({o \in base_data :
                            o.filing_id = cvr.filing_id /\ o.amend_id > cvr.amend_id})
        selected ==
            {[filing_id |-> cvr.filing_id, filer_name |-> cvr.filer_naml,
              firm_name |-> cvr.firm_name, report_date |-> cvr.rpt_date,
              from_date |-> cvr.from_date, thru_date |-> cvr.thru_date,
              total_amount |-> SumOver({pay \in lpay_cd : pay.filing_id = cvr.filing_id}, "fees_amt")
                             + SumOver({pay \in lpay_cd : pay.filing_id = cvr.filing_id}, "reimb_amt")
                             + SumOver({pay \in lpay_cd : pay.filing_id = cvr.filing_id}, "advan_amt"),
              status |-> "Active", amendment_id |-> cvr.amend_id,
              latest_amendment_flag |-> (row_num(cvr) = 1),
              county |-> "", city |-> "", employer_name |-> "", line_item |-> "",
              fees_amount |-> 0, reimbursement_amount |-> 0, advance_amount |-> 0,
              advance_description |-> "", period_total |-> 0, cumulative_total |-> 0,
              sort_key |-> <<cvr.rpt_date, cvr.amend_id>>] :
             cvr \in {c \in base_data : row_num(c) = 1}}
    IN  LimitOffset(OrderBy(selected, "sort_key"), pagination)

\* the WHERE conditions build_financial_search_query appends, on a joined row
FinancialConditions(params, cvr, pay) ==
    /\ Given(params, "amountMin") => LineAmount(pay) >= params["amountMin"]
    /\ Given(params, "amountMax") => LineAmount(pay) <= params["amountMax"]
    /\ Given(params, "reportDateFrom") => cvr.rpt_date >= params["reportDateFrom"]
    /\ Given(params, "reportDateTo") => cvr.rpt_date <= params["reportDateTo"]
    /\ (/\ Given(params, "paymentTypes")
        /\ \E i \in DOMAIN params["paymentTypes"] :
                params["paymentTypes"][i] \in {"LOBBYING_FEES", "REIMBURSEMENTS", "ADVANCES"})
       => \E i \in DOMAIN params["paymentTypes"] :
            \/ params["paymentTypes"][i] = "LOBBYING_FEES" /\ pay.fees_amt > 0
            \/ params["paymentTypes"][i] = "REIMBURSEMENTS" /\ pay.reimb_amt > 0
            \/ params["paymentTypes"][i] = "ADVANCES" /\ pay.advan_amt > 0

\* the rows the query of build_financial_search_query selects: cvr INNER JOIN
\* lpay_cd on filing_id, filtered, ranked within (filing_id, line_item) by
\* amend_id descending, rank 1 kept
build_financial_search_query(params, pagination) ==
    LET payment_data ==
            {j \in [cvr : cvr_lobby_disclosure_cd, pay : lpay_cd] :
                /\ j.cvr.filing_id = j.pay.filing_id
                /\ FinancialConditions(params, j.cvr, j.pay)}
        row_num(j) == 1 + Cardinality({o \in payment_data :
                            /\ o.pay.filing_id = j.pay.filing_id
                            /\ o.pay.line_item = j.pay.line_item
                            /\ o.cvr.amend_id > j.cvr.amend_id})
        selected ==
            {[filing_id |-> j.cvr.filing_id, filer_name |-> j.cvr.filer_naml,
              firm_name |-> j.cvr.firm_name, employer_name |-> j.pay.emplr_naml,
              report_date |-> j.cvr.rpt_date,
              from_date |-> j.cvr.from_date, thru_date |-> j.cvr.thru_date,
              line_item |-> j.pay.line_item, fees_amount |-> j.pay.fees_amt,
              reimbursement_amount |-> j.pay.reimb_amt, advance_amount |-> j.pay.advan_amt,
              advance_description |-> j.pay.advan_dscr,
              period_total |-> j.pay.per_total, cumulative_total |-> j.pay.cum_total,
              total_amount |-> LineAmount(j.pay), amendment_id |-> j.cvr.amend_id,
              latest_amendment_flag |-> (row_num(j) = 1),
              status |-> "Active", county |-> "", city |-> "",
              sort_key |-> <<LineAmount(j.pay), j.cvr.rpt_date>>] :
             j \in {x \in payment_data : row_num(x) = 1}}
    IN  LimitOffset(OrderBy(selected, "sort_key"), pagination)

\* the WHERE conditions build_filing_search_query appends
FilingConditions(params, cvr) ==
    /\ Given(params, "filingId") => cvr.filing_id = params["filingId"]
    /\ (Given(params, "filingStatus") /\ params["filingStatus"] = "Original")
            => cvr.amend_id = 0
    /\ (Given(params, "filingStatus") /\ params["filingStatus"] = "Amended")
            => cvr.amend_id > 0
    /\ Given(params, "latestAmendmentOnly") =>
            \A cvr2 \in cvr_lobby_disclosure_cd :
                cvr2.filing_id = cvr.filing_id => cvr2.amend_id <= cvr.amend_id

\* the rows the query of build_filing_search_query selects: every amendment
\* that passes the conditions, each flagged latest
build_filing_search_query(params, pagination) ==
    LET selected ==
            {[filing_id |-> cvr.filing_id, filer_name |-> cvr.filer_naml,
              firm_name |-> cvr.firm_name, report_date |-> cvr.rpt_date,
              from_date |-> cvr.from_date, thru_date |-> cvr.thru_date,
              amendment_id |-> cvr.amend_id,
              filing_status |-> IF cvr.amend_id = 0 THEN "Original" ELSE "Amended",
              status |-> "Active",
              total_amount |-> SumOver({pay \in lpay_cd : pay.filing_id = cvr.filing_id}, "fees_amt")
                             + SumOver({pay \in lpay_cd : pay.filing_id = cvr.filing_id}, "reimb_amt")
                             + SumOver({pay \in lpay_cd : pay.filing_id = cvr.filing_id}, "advan_amt"),
              latest_amendment_flag |-> TRUE,
              county |-> "", city |-> "", employer_name |-> "", line_item |-> "",
              fees_amount |-> 0, reimbursement_amount |-> 0, advance_amount |-> 0,
              advance_description |-> "", period_total |-> 0, cumulative_total |-> 0,
              sort_key |-> <<cvr.rpt_date, cvr.amend_id>>] :
             cvr \in {c \in cvr_lobby_disclosure_cd : FilingConditions(params, c)}}
    IN  LimitOffset(OrderBy(selected, "sort_key"), pagination)

\* the twenty keys of a filing record in a search answer
FilingShape ==
    {"filing_id", "filer_name", "firm_name", "employer_name", "report_date",
     "from_date", "thru_date", "total_amount", "county", "city", "status",
     "amendment_id", "line_item", "fees_amount", "reimbursement_amount",
     "advance_amount", "advance_description", "period_total", "cumulative_total",
     "latest_amendment_flag"}

\* the filing_data the handlers build from one result row: the twenty keys,
\* a column the row lacks replaced by its default
filing_data(row) ==
    [k \in FilingShape |->
        IF k \in DOMAIN row THEN row[k]
        ELSE IF k = "status" THEN "Active"
        ELSE IF k = "latest_amendment_flag" THEN TRUE
        ELSE IF k \in {"total_amount", "amendment_id", "fees_amount", "reimbursement_amount",
                       "advance_amount", "period_total", "cumulative_total"} THEN 0
        ELSE ""]

\* ceil(total_count / pageSize)
PageCount(total_count, pageSize) == (total_count + pageSize - 1) \div pageSize

Max(a, b) == IF a >= b THEN a ELSE b

Min(a, b) == IF a <= b THEN a ELSE b

\* the pagination a handler works with: the body's, or page 1 of 25, with
\* page raised to 1 and pageSize brought into 1..100
ValidatedPagination(data) ==
    LET pagination == Get(data, "pagination", [page |-> 1, pageSize |-> 25])
    IN  [page |-> Max(1, Get(pagination, "page", 1)),
         pageSize |-> Min(100, Max(1, Get(pagination, "pageSize", 25)))]

\* the 200 answer built from the rows of a query that ran
SearchResults(rows, pagination) ==
    LET results == [i \in DOMAIN rows |-> filing_data(rows[i])]
        total_count == Len(results)
        total_pages == PageCount(total_count, pagination.pageSize)
    IN  [status |-> 200, success |-> TRUE, mock |-> <<>>,
         message |-> "",
         data |-> results,
         pagination |-> [currentPage |-> pagination.page,
                         totalPages |-> Max(1, total_pages),
                         totalCount |-> total_count,
                         pageSize |-> pagination.pageSize,
                         hasNextPage |-> pagination.page < total_pages,
                         hasPreviousPage |-> pagination.page > 1]]

\* get_mock_search_results
get_mock_search_results(search_type, params, pagination) ==
    LET mock_filing(i) ==
            LET base_id == (pagination.page - 1) * pagination.pageSize + i
            IN  [filing_id |-> "10" \o ToString(100000 + base_id),
                 filer_name |-> "Sample Lobbyist " \o ToString(base_id),
                 firm_name |-> "Sample Firm " \o ToString(base_id),
                 employer_name |-> "Sample Employer " \o ToString(base_id),
                 report_date |-> "2024-09-01", from_date |-> "2024-07-01",
                 thru_date |-> "2024-09-30",
                 total_amount |-> 10000 + base_id * 1500,
                 county |-> "Sacramento", city |-> "Sacramento", status |-> "Active",
                 amendment_id |-> 0, line_item |-> "L" \o ToString(base_id),
                 fees_amount |-> 8000 + base_id * 1000,
                 reimbursement_amount |-> 1000 + base_id * 300,
                 advance_amount |-> 1000 + base_id * 200,
                 advance_description |->
                    "Travel and accommodation expenses " \o ToString(base_id),
                 period_total |-> 10000 + base_id * 1500,
                 cumulative_total |-> 30000 + base_id * 4500,
                 latest_amendment_flag |-> TRUE]
        total_count == 1000
        total_pages == PageCount(total_count, pagination.pageSize)
    IN  [status |-> 200, success |-> TRUE, mock |-> <<TRUE>>,
         message |-> "",
         data |-> [i \in 1..pagination.pageSize |-> mock_filing(i)],
         pagination |-> [currentPage |-> pagination.page,
                         totalPages |-> total_pages,
                         totalCount |-> total_count,
                         pageSize |-> pagination.pageSize,
                         hasNextPage |-> pagination.page < total_pages,
                         hasPreviousPage |-> pagination.page > 1]]

SearchFailure(status, message) ==
    [status |-> status, success |-> FALSE, mock |-> <<>>, message |-> message,
     data |-> <<>>, pagination |-> <<>>]

\* search_entities for a request without a token: no warehouse client is
\* answered 503; a query that raises is answered with mock results
search_entities(bq, data, query_ok) ==
    LET params == Get(data, "params", <<>>)
        pagination == ValidatedPagination(data)
    IN  IF ~bq THEN SearchFailure(503, "Database connection not available")
        ELSE IF query_ok
        THEN SearchResults(build_entity_search_query(params, pagination), pagination)
        ELSE get_mock_search_results("entities", params, pagination)

\* search_financial for a request without a token
search_financial(bq, data, query_ok) ==
    LET params == Get(data, "params", <<>>)
        pagination == ValidatedPagination(data)
    IN  IF ~bq THEN get_mock_search_results("financial", params, pagination)
        ELSE IF query_ok
        THEN SearchResults(build_financial_search_query(params, pagination), pagination)
        ELSE get_mock_search_results("financial", params, pagination)

\* search_filings for a request without a token
search_filings(bq, data, query_ok) ==
    LET params == Get(data, "params", <<>>)
        pagination == ValidatedPagination(data)
    IN  IF ~bq THEN get_mock_search_results("filings", params, pagination)
        ELSE IF query_ok
        THEN SearchResults(build_filing_search_query(params, pagination), pagination)
        ELSE get_mock_search_results("filings", params, pagination)

\* a search request and its answer; query_ok says whether the warehouse
\* answers the query or raises
SearchRequest(op, data, query_ok, answer) ==
    /\ req' = [op |-> op, data |-> data, query_ok |-> query_ok]
    /\ resp' = answer
    /\ UNCHANGED <<MOCK_USERS, MOCK_USERS_DB, tokens, redis, redis_client,
                   bigquery_client, now, loggedOut>>
    /\ UNCHANGED <<monitorVars, appVars>>

\* POST /api/search/entities
SearchEntities(data, query_ok) ==
    SearchRequest("POST /search/entities", data, query_ok,
                  search_entities(bigquery_client, data, query_ok))

\* POST /api/search/financial
SearchFinancial(data, query_ok) ==
    SearchRequest("POST /search/financial", data, query_ok,
                  search_financial(bigquery_client, data, query_ok))

\* POST /api/search/filings
SearchFilings(data, query_ok) ==
    SearchRequest("POST /search/filings", data, query_ok,
                  search_filings(bigquery_client, data, query_ok))

SearchPaginations ==
    {[page |-> 1, pageSize |-> 1], [page |-> 2, pageSize |-> 2],
     [page |-> 0, pageSize |-> 0], [pageSize |-> MaxPageSizeAsked]}

EntityParams ==
    {<<>>,
     [filerName |-> <<"a", "c", "m", "e">>],
     [filerName |-> <<"o", "n", "e">>],
     [firmName |-> <<"C", "A", "P", "I", "T", "O", "L">>],
     [employerName |-> <<"m", "e", "t", "r", "o">>],
     [registrationDateFrom |-> 120],
     [registrationDateTo |-> 120],
     [registrationDateFrom |-> 90, registrationDateTo |-> 160],
     [counties |-> <<<<"b", "e", "t", "a">>, <<"t", "w", "o">>>>]}

FinancialParams ==
    {<<>>,
     [amountMin |-> 1000],
     [amountMax |-> 1000],
     [reportDateFrom |-> 120],
     [reportDateTo |-> 120],
     [paymentTypes |-> <<"REIMBURSEMENTS">>],
     [paymentTypes |-> <<"LOBBYING_FEES", "ADVANCES">>, reportDateTo |-> 160]}

FilingParams ==
    {<<>>,
     [filingId |-> "2001"],
     [filingStatus |-> "Original"],
     [filingStatus |-> "Amended"],
     [filingStatus |-> "All", latestAmendmentOnly |-> TRUE]}

\* bodies: none, params only, params with pagination
SearchBodies(paramSet) ==
    {<<>>}
    \cup {[params |-> p] : p \in paramSet}
    \cup {[params |-> p, pagination |-> g] : p \in paramSet, g \in SearchPaginations}

InitSearch == WebInit({FALSE}, BOOLEAN) /\ MonitorIdle /\ AppIdle

NextSearch ==
    \/ \E data \in SearchBodies(EntityParams), query_ok \in BOOLEAN :
            SearchEntities(data, query_ok)
    \/ \E data \in SearchBodies(FinancialParams), query_ok \in BOOLEAN :
            SearchFinancial(data, query_ok)
    \/ \E data \in SearchBodies(FilingParams), query_ok \in BOOLEAN :
            SearchFilings(data, query_ok)

SpecSearch == InitSearch /\ [][NextSearch]_vars

-----------------------------------------------------------------------------
(* app.py: GET /api/health *)

\* the sub-status of one service: no client, a client whose test raises, or
\* a client whose test passes
ServiceStatus(client, test_raises) ==
    IF ~client THEN [status |-> "unavailable", available |-> FALSE]
    ELSE IF test_raises THEN [status |-> "unhealthy", available |-> FALSE]
    ELSE [status |-> "healthy", available |-> TRUE]

\* unhealthy whenever the warehouse is not healthy, demo mode or not
health_check_NoDemoMode(bq, cache_client, mock_env, project_raises, ping_raises, t) ==
    LET bigquery_healthy == bq /\ ~project_raises
        overall_status == IF ~bigquery_healthy THEN "unhealthy" ELSE "healthy"
    IN  [status |-> IF overall_status = "unhealthy" THEN 503 ELSE 200,
         message |-> "",
         body |-> [status |-> overall_status,
                   timestamp |-> t,
                   version |-> "1.0.0",
                   environment |-> [mock_data_mode |-> mock_env = <<"true">>],
                   services |-> [bigquery |-> ServiceStatus(bq, project_raises),
                                 redis |-> ServiceStatus(cache_client, ping_raises)],
                   features |-> [authentication |-> TRUE,
                                 token_blacklisting |-> cache_client]]]

\* health_check: project_raises and ping_raises say whether reading the
\* warehouse client's project and pinging the cache raise
health_check(bq, cache_client, mock_env, project_raises, ping_raises, t) ==
    LET bigquery_healthy == bq /\ ~project_raises
        overall_status ==
            IF ~bigquery_healthy /\ ~(mock_env = <<"true">>) THEN "unhealthy"
            ELSE IF ~bigquery_healthy THEN "degraded"
            ELSE "healthy"
    IN  [status |-> IF overall_status = "unhealthy" THEN 503 ELSE 200,
         message |-> "",
         body |-> [status |-> overall_status,
                   timestamp |-> t,
                   version |-> "1.0.0",
                   environment |-> [mock_data_mode |-> mock_env = <<"true">>],
                   services |-> [bigquery |-> ServiceStatus(bq, project_raises),
                                 redis |-> ServiceStatus(cache_client, ping_raises)],
                   features |-> [authentication |-> TRUE,
                                 token_blacklisting |-> cache_client]]]

\* GET /api/health
HealthCheck(project_raises, ping_raises) ==
    /\ req' = [op |-> "GET /health", project_raises |-> project_raises,
               ping_raises |-> ping_raises]
    /\ resp' = health_check(bigquery_client, redis_client, USE_MOCK_DATA,
                            project_raises, ping_raises, now)
    /\ UNCHANGED <<MOCK_USERS, MOCK_USERS_DB, tokens, redis, redis_client,
                   bigquery_client, now, loggedOut>>
    /\ UNCHANGED <<monitorVars, appVars>>

\* the rules create_app registers on the application itself; the blueprints'
\* rules lie under /api/auth, /api/dashboard, /api/search, /api/reports,
\* /api/data, /api/export and /api/admin
url_map == {"/api/health", "/api/"}

\* api_root
api_root ==
    [status |-> 200, message |-> "",
     body |-> [message |-> <<"C", "a", "l", "i", "f", "o", "r", "n", "i", "a", " ",
                             "L", "o", "b", "b", "y", "i", "n", "g", " ",
                             "T", "r", "a", "n", "s", "p", "a", "r", "e", "n", "c", "y", " ",
                             "A", "P", "I">>,
               version |-> "1.0.0",
               documentation |-> "/api/docs"]]

\* not_found, the handler of error 404
not_found ==
    [status |-> 404, message |-> "",
     body |-> [error |-> <<"E", "n", "d", "p", "o", "i", "n", "t", " ",
                           "n", "o", "t", " ", "f", "o", "u", "n", "d">>]]

\* a GET request to a path outside the blueprints: the rule of the path
\* answers, and error 404 when no rule matches
Dispatch(path) ==
    /\ req' = [op |-> "GET", path |-> path]
    /\ resp' = IF path = "/api/" THEN api_root ELSE not_found
    /\ UNCHANGED <<MOCK_USERS, MOCK_USERS_DB, tokens, redis, redis_client,
                   bigquery_client, now, loggedOut>>
    /\ UNCHANGED <<monitorVars, appVars>>

\* the paths requested besides /api/health
RequestPaths == {"/api/", "/api/nonexistent-endpoint", "/api/invalid-route", "/favicon.ico"}

\* the values USE_MOCK_DATA is started with: unset, 'true', and values that
\* are not the string 'true'
MockDataSettings == {<<>>, <<"true">>, <<"false">>, <<"TRUE">>, <<"1">>}

InitHealth ==
    /\ WebInit(BOOLEAN, BOOLEAN)
    /\ MonitorIdle
    /\ USE_MOCK_DATA \in MockDataSettings
    /\ in_flight = {}
    /\ stats_log = <<>>
    /\ logoutsAnswered = {}

\* a test can raise only on a client that exists
NextHealth ==
    \/ \E project_raises \in (IF bigquery_client THEN BOOLEAN ELSE {FALSE}),
          ping_raises \in (IF redis_client THEN BOOLEAN ELSE {FALSE}) :
            HealthCheck(project_raises, ping_raises)
    \/ \E path \in RequestPaths : Dispatch(path)
    \/ Tick

SpecHealth == InitHealth /\ [][NextHealth]_vars

-----------------------------------------------------------------------------
(* src/subagents/agent_registry.py.  Task descriptions and keywords are      *)
(* sequences of one-character strings.                                       *)

\* the agent_type of UIDatabaseDesigner, whose module is imported by the
\* registry; the specification names it in its agent table
UIDatabaseDesigner == "ui-database-designer"

\* _initialize_agents: the keys of self._agents, each agent under the
\* agent_type its constructor sets, in the order of the agents list
RegisteredAgentTypes ==
    <<"general-purpose", "statusline-setup", "output-style-setup",
      "website-coding-specialist", "session-archiver", "vercel-deployment-expert",
      UIDatabaseDesigner, "nextjs-fullstack-expert",
      "react-nextjs-migration-specialist", "flask-nextjs-api-migration-specialist",
      "authentication-migration-specialist">>

\* self._agents.get(agent_type): <<>> for None
get_agent(agent_type) ==
    IF agent_type \in Range(RegisteredAgentTypes) THEN <<agent_type>> ELSE <<>>

\* agent_keywords of recommend_agent_for_task, in insertion order
agent_keywords ==
    <<
      [agent_type |-> "vercel-deployment-expert",
       keywords |-> <<<<"v", "e", "r", "c", "e", "l">>,
                      <<"d", "e", "p", "l", "o", "y">>,
                      <<"d", "e", "p", "l", "o", "y", "m", "e", "n", "t">>,
                      <<"h", "o", "s", "t", "i", "n", "g">>,
                      <<"e", "d", "g", "e">>,
                      <<"s", "e", "r", "v", "e", "r", "l", "e", "s", "s">>>>],
      [agent_type |-> "nextjs-fullstack-expert",
       keywords |-> <<<<"n", "e", "x", "t", "j", "s">>,
                      <<"n", "e", "x", "t", ".", "j", "s">>,
                      <<"r", "e", "a", "c", "t">>,
                      <<"f", "u", "l", "l", "s", "t", "a", "c", "k">>,
                      <<"a", "p", "p", " ", "r", "o", "u", "t", "e", "r">>>>],
      [agent_type |-> "react-nextjs-migration-specialist",
       keywords |-> <<<<"m", "i", "g", "r", "a", "t", "e">>,
                      <<"m", "i", "g", "r", "a", "t", "i", "o", "n">>,
                      <<"c", "r", "a">>,
                      <<"c", "r", "e", "a", "t", "e", "-", "r", "e", "a", "c", "t", "-", "a", "p", "p">>>>],
      [agent_type |-> "flask-nextjs-api-migration",
       keywords |-> <<<<"f", "l", "a", "s", "k">>,
                      <<"p", "y", "t", "h", "o", "n">>,
                      <<"a", "p", "i", " ", "m", "i", "g", "r", "a", "t", "i", "o", "n">>,
                      <<"b", "a", "c", "k", "e", "n", "d">>>>],
      [agent_type |-> "authentication-migration-specialist",
       keywords |-> <<<<"a", "u", "t", "h">>,
                      <<"a", "u", "t", "h", "e", "n", "t", "i", "c", "a", "t", "i", "o", "n">>,
                      <<"j", "w", "t">>,
                      <<"l", "o", "g", "i", "n">>,
                      <<"s", "e", "s", "s", "i", "o", "n">>>>],
      [agent_type |-> "website-coding-specialist",
       keywords |-> <<<<"u", "i">>,
                      <<"i", "n", "t", "e", "r", "f", "a", "c", "e">>,
                      <<"d", "a", "s", "h", "b", "o", "a", "r", "d">>,
                      <<"f", "r", "o", "n", "t", "e", "n", "d">>,
                      <<"c", "o", "m", "p", "o", "n", "e", "n", "t", "s">>>>],
      [agent_type |-> "ui-database-designer",
       keywords |-> <<<<"d", "a", "t", "a", "b", "a", "s", "e">>,
                      <<"d", "a", "t", "a", " ", "v", "i", "s", "u", "a", "l", "i", "z", "a", "t", "i", "o", "n">>,
                      <<"t", "a", "b", "l", "e", "s">>,
                      <<"f", "o", "r", "m", "s">>>>],
      [agent_type |-> "session-archiver",
       keywords |-> <<<<"a", "r", "c", "h", "i", "v", "e">>,
                      <<"d", "o", "c", "u", "m", "e", "n", "t", "a", "t", "i", "o", "n">>,
                      <<"s", "e", "s", "s", "i", "o", "n">>,
                      <<"l", "e", "a", "r", "n", "i", "n", "g">>>>],
      [agent_type |-> "general-purpose",
       keywords |-> <<<<"r", "e", "s", "e", "a", "r", "c", "h">>,
                      <<"a", "n", "a", "l", "y", "s", "i", "s">>,
                      <<"s", "e", "a", "r", "c", "h">>,
                      <<"c", "o", "m", "p", "l", "e", "x">>>>]
    >>

\* the keywords of a table row that occur in the lowered description, in
\* the row's order
match_keywords(keywords, task_lower) ==
    LET occurs(keyword) == Contains(task_lower, keyword)
    IN  SelectSeq(keywords, occurs)

RECURSIVE SortByScore(_, _)
\* list.sort(key=score, reverse=True): stable, so rows of one score keep
\* their order; top is the highest score to place
SortByScore(recommendations, top) ==
    IF top = 0 THEN <<>>
    ELSE LET scored(r) == r.score = top
         IN  SelectSeq(recommendations, scored) \o SortByScore(recommendations, top - 1)

MaxKeywords == 6

\* recommend_agent_for_task
recommend_agent_for_task(task_description) ==
    LET task_lower == lower(task_description)
        rows == [i \in DOMAIN agent_keywords |->
                    LET matched == match_keywords(agent_keywords[i].keywords, task_lower)
                    IN  [agent |-> get_agent(agent_keywords[i].agent_type),
                         agent_type |-> agent_keywords[i].agent_type,
                         score |-> Len(matched),
                         match_keywords |-> matched]]
        recommended(r) == r.score > 0 /\ r.agent # <<>>
    IN  SortByScore(SelectSeq(rows, recommended), MaxKeywords)

\* execute_task of an agent: the envelope every agent class builds
execute_task(agent_type, prompt) ==
    [status |-> "completed", agent_type |-> agent_type, prompt |-> prompt,
     message |-> ""]

\* execute_task_with_best_agent
execute_task_with_best_agent(task_description) ==
    LET recommendations == recommend_agent_for_task(task_description)
        agent == IF recommendations = <<>> THEN get_agent("general-purpose")
                 ELSE recommendations[1].agent
    IN  IF agent # <<>> THEN execute_task(agent[1], task_description)
        ELSE [status |-> "error", agent_type |-> "", prompt |-> task_description,
              message |-> "No suitable agent found for task"]

\* a call of recommend_agent_for_task
RecommendAgentForTask(task_description) ==
    /\ req' = [op |-> "recommend_agent_for_task", task_description |-> task_description]
    /\ resp' = [status |-> "returned", message |-> "",
                recommendations |-> recommend_agent_for_task(task_description)]
    /\ UNCHANGED <<MOCK_USERS, MOCK_USERS_DB, tokens, redis, redis_client,
                   bigquery_client, now, loggedOut>>
    /\ UNCHANGED <<monitorVars, appVars>>

\* a call of execute_task_with_best_agent
ExecuteTaskWithBestAgent(task_description) ==
    /\ req' = [op |-> "execute_task_with_best_agent", task_description |-> task_description]
    /\ resp' = execute_task_with_best_agent(task_description)
    /\ UNCHANGED <<MOCK_USERS, MOCK_USERS_DB, tokens, redis, redis_client,
                   bigquery_client, now, loggedOut>>
    /\ UNCHANGED <<monitorVars, appVars>>

\* get_migration_workflow_agents: the agent types of the view, in its order
get_migration_workflow_agents ==
    <<[agent_type |-> "nextjs-fullstack-expert", phase |-> "Foundation & Development"],
      [agent_type |-> "vercel-deployment-expert", phase |-> "Deployment & Performance"],
      [agent_type |-> "flask-nextjs-api-migration", phase |-> "API Migration"],
      [agent_type |-> "authentication-migration-specialist", phase |-> "Security & Auth"],
      [agent_type |-> "website-coding-specialist", phase |-> "Frontend Development"],
      [agent_type |-> "ui-database-designer", phase |-> "Data Interface Design"],
      [agent_type |-> "session-archiver", phase |-> "Documentation & Learning"]>>

\* a call of get_agent
GetAgent(agent_type) ==
    /\ req' = [op |-> "get_agent", agent_type |-> agent_type]
    /\ resp' = [status |-> "returned", message |-> "", agent |-> get_agent(agent_type)]
    /\ UNCHANGED <<MOCK_USERS, MOCK_USERS_DB, tokens, redis, redis_client,
                   bigquery_client, now, loggedOut>>
    /\ UNCHANGED <<monitorVars, appVars>>

\* a call of get_migration_workflow_agents
GetMigrationWorkflowAgents ==
    /\ req' = [op |-> "get_migration_workflow_agents"]
    /\ resp' = [status |-> "returned", message |-> "",
                migration_agents |-> get_migration_workflow_agents]
    /\ UNCHANGED <<MOCK_USERS, MOCK_USERS_DB, tokens, redis, redis_client,
                   bigquery_client, now, loggedOut>>
    /\ UNCHANGED <<monitorVars, appVars>>

\* the agent types get_agent is asked for: the registered ones, the ones the
\* keyword table and the workflow view name, and one nothing names
AgentTypesAsked ==
    Range(RegisteredAgentTypes)
    \cup {agent_keywords[i].agent_type : i \in DOMAIN agent_keywords}
    \cup {get_migration_workflow_agents[i].agent_type : i \in DOMAIN get_migration_workflow_agents}
    \cup {"no-such-agent"}

\* the words task descriptions are made of
TaskWords ==
    {<<"V", "e", "r", "c", "e", "l">>,
     <<"d", "e", "p", "l", "o", "y", "m", "e", "n", "t">>,
     <<"f", "l", "a", "s", "k">>,
     <<"b", "a", "c", "k", "e", "n", "d">>,
     <<"s", "e", "s", "s", "i", "o", "n">>,
     <<"l", "o", "g", "i", "n">>,
     <<"B", "U", "I", "L", "D">>,
     <<"h", "e", "l", "l", "o">>}

RECURSIVE JoinWords(_)
\* the words separated by single spaces
JoinWords(ws) ==
    IF ws = <<>> THEN <<>>
    ELSE IF Len(ws) = 1 THEN ws[1]
    ELSE ws[1] \o <<" ">> \o JoinWords(Tail(ws))

\* descriptions of up to MaxWords words, the empty description included
TaskDescriptions ==
    {JoinWords(ws) : ws \in UNION {[1..n -> TaskWords] : n \in 0..MaxWords}}

InitRegistry == WebInit({FALSE}, {FALSE}) /\ MonitorIdle /\ AppIdle

NextRegistry ==
    \/ \E task_description \in TaskDescriptions : RecommendAgentForTask(task_description)
    \/ \E task_description \in TaskDescriptions : ExecuteTaskWithBestAgent(task_description)
    \/ \E agent_type \in AgentTypesAsked : GetAgent(agent_type)
    \/ GetMigrationWorkflowAgents

SpecRegistry == InitRegistry /\ [][NextRegistry]_vars

-----------------------------------------------------------------------------
(* src/subagents: the advisory functions of the migration specialists.  A   *)
(* dictionary is a function whose DOMAIN is its keys; a list is a sequence. *)

\* AuthenticationMigrationSpecialist._recommend_target_auth_system: it reads
\* the keys "social_providers", "roles", "mfa_enabled", "auth_type",
\* "password_reset" and "email_verification" of the analysis
_recommend_target_auth_system(analysis) ==
    LET has_social_logins == Len(Get(analysis, "social_providers", <<>>)) > 0
        has_complex_roles == Len(Get(analysis, "roles", <<>>)) > 3
        is_enterprise == Get(analysis, "mfa_enabled", FALSE) \/ has_complex_roles
    IN  IF is_enterprise
        THEN [recommended_system |-> "clerk",
              reasoning |-> "Enterprise features, built-in MFA, advanced user management"]
        ELSE IF has_social_logins \/ Get(analysis, "auth_type", "") = "oauth"
        THEN [recommended_system |-> "nextauth",
              reasoning |-> "Excellent social provider support, flexible configuration"]
        ELSE IF Get(analysis, "password_reset", FALSE)
                \/ Get(analysis, "email_verification", FALSE)
        THEN [recommended_system |-> "supabase_auth",
              reasoning |-> "Built-in email workflows, database integration"]
        ELSE [recommended_system |-> "nextauth",
              reasoning |-> "Most flexible for custom implementations"]

\* AuthenticationMigrationSpecialist.analyze_current_auth_system: the
\* analysis files the configuration's social providers under "social_logins"
\* and its roles under "role_system"
analyze_current_auth_system(auth_config) ==
    LET analysis ==
            [auth_type |-> Get(auth_config, "type", "unknown"),
             social_logins |-> Get(auth_config, "social_providers", <<>>),
             role_system |-> Get(auth_config, "roles", <<>>),
             password_reset |-> Get(auth_config, "password_reset", FALSE),
             email_verification |-> Get(auth_config, "email_verification", FALSE),
             mfa_enabled |-> Get(auth_config, "mfa", FALSE),
             migration_complexity |-> "medium"]
    IN  [status |-> "success", message |-> "",
         operation |-> "analyze_current_auth_system",
         analysis_results |-> analysis,
         target_recommendation |-> _recommend_target_auth_system(analysis)]

\* the auth configurations analysed: each key present or left out
AuthConfigs ==
    {Body(f) : f \in [type : {<<>>, <<"jwt">>, <<"oauth">>},
                      social_providers : {<<>>, <<(<<>>)>>, <<(<<"google">>)>>},
                      roles : {<<>>, <<(<<"admin", "editor", "viewer">>)>>,
                               <<(<<"admin", "editor", "viewer", "guest">>)>>},
                      password_reset : {<<>>, <<TRUE>>, <<FALSE>>},
                      email_verification : {<<>>, <<TRUE>>},
                      mfa : {<<>>, <<TRUE>>}]}

\* one call of an advisory function and what it returns.  The functions keep
\* nothing between calls, so a behaviour is a single call.
AdvisorCall(call, result) ==
    /\ req.op = "start"
    /\ req' = call
    /\ resp' = result
    /\ UNCHANGED <<MOCK_USERS, MOCK_USERS_DB, tokens, redis, redis_client,
                   bigquery_client, now, loggedOut>>
    /\ UNCHANGED <<monitorVars, appVars>>

\* a call of analyze_current_auth_system
AnalyzeCurrentAuthSystem(auth_config) ==
    AdvisorCall([op |-> "analyze_current_auth_system", auth_config |-> auth_config],
                analyze_current_auth_system(auth_config))

\* a list of n entries
ListOf(n) == [i \in 1..n |-> "entry"]

\* the complexity_multiplier table of the Flask estimator, in tenths; a
\* complexity the table lacks gets the default 1.3
api_complexity_multiplier(complexity) ==
    CASE complexity = "low" -> 10
      [] complexity = "medium" -> 13
      [] complexity = "high" -> 20
      [] OTHER -> 13

\* FlaskNextJSAPIMigrationSpecialist._estimate_api_migration_effort.  The
\* factors are counted in half hours and the multiplier in tenths, so
\* total_hours is total_twentieths / 20 and int() is the integer quotient.
_estimate_api_migration_effort(analysis) ==
    LET base_effort == 2 * 16
        endpoint_factor == Get(analysis, "endpoints_count", 0) * 3
        middleware_factor == 2 * (Len(Get(analysis, "middleware", <<>>)) * 3)
        database_factor ==
            2 * (IF Get(analysis, "database_integration", "none") # "none" THEN 12 ELSE 0)
        auth_factor ==
            2 * (IF Get(analysis, "authentication_method", "none") # "none" THEN 8 ELSE 0)
        extensions_factor == 2 * (Len(Get(analysis, "extensions_used", <<>>)) * 2)
        total_twentieths ==
            (base_effort + endpoint_factor + middleware_factor
             + database_factor + auth_factor + extensions_factor)
            * api_complexity_multiplier(Get(analysis, "migration_complexity", "medium"))
    IN  [estimated_hours |-> total_twentieths \div 20,
         estimated_days |-> total_twentieths \div (20 * 8)]

\* FlaskNextJSAPIMigrationSpecialist.analyze_flask_api: the analysis keeps
\* the number of middleware entries under "middleware_count"
analyze_flask_api(flask_config) ==
    LET analysis ==
            [endpoints_count |-> Len(Get(flask_config, "endpoints", <<>>)),
             middleware_count |-> Len(Get(flask_config, "middleware", <<>>)),
             database_integration |-> Get(flask_config, "database", "none"),
             authentication_method |-> Get(flask_config, "auth", "none"),
             extensions_used |-> Get(flask_config, "extensions", <<>>),
             migration_complexity |-> "medium"]
    IN  [status |-> "success", message |-> "",
         operation |-> "analyze_flask_api",
         analysis_results |-> analysis,
         estimated_effort |-> _estimate_api_migration_effort(analysis)]

\* the Flask configurations analysed
FlaskConfigs ==
    {Body(f) : f \in [endpoints : Opt({ListOf(n) : n \in 0..MaxEndpoints}),
                      middleware : Opt({ListOf(n) : n \in 0..MaxMiddleware}),
                      database : Opt({"none", "sqlalchemy"}),
                      auth : Opt({"none", "jwt"}),
                      extensions : Opt({ListOf(n) : n \in 0..MaxExtensions})]}

\* the analyses the estimator is called with directly
FlaskAnalyses ==
    {Body(f) : f \in [endpoints_count : Opt({0, 1, MaxEndpoints}),
                      middleware : Opt({ListOf(n) : n \in 0..MaxMiddleware}),
                      database_integration : Opt({"none", "sqlalchemy"}),
                      authentication_method : Opt({"none", "jwt"}),
                      extensions_used : Opt({ListOf(0), ListOf(MaxExtensions)}),
                      migration_complexity : Opt({"low", "medium", "high"})]}

\* a call of analyze_flask_api
AnalyzeFlaskApi(flask_config) ==
    AdvisorCall([op |-> "analyze_flask_api", flask_config |-> flask_config],
                analyze_flask_api(flask_config))

\* a call of _estimate_api_migration_effort
EstimateApiMigrationEffort(analysis) ==
    AdvisorCall([op |-> "_estimate_api_migration_effort", analysis |-> analysis],
                [status |-> "returned", message |-> "",
                 estimated_effort |-> _estimate_api_migration_effort(analysis)])

\* ReactNextJSMigrationSpecialist._estimate_migration_effort
\* (complexity_multiplier), in halves; an unknown complexity counts as medium
react_complexity_multiplier(complexity) ==
    CASE complexity = "low" -> 2
      [] complexity = "medium" -> 3
      [] complexity = "high" -> 5
      [] OTHER -> 3

\* the same estimator with the component factor left uncapped
component_factor_NoCap(analysis) == Get(analysis, "components_count", 0)

\* ReactNextJSMigrationSpecialist._estimate_migration_effort
\* (component_factor), in half hours: min(components_count * 0.5, 20)
component_factor(analysis) == Min(Get(analysis, "components_count", 0), 2 * 20)

\* ReactNextJSMigrationSpecialist._estimate_migration_effort.  The factors are
\* counted in half hours and the multiplier in halves, so total_hours is
\* total_quarters / 4 and int() is the integer quotient.  A missing
\* routing_library is None, which differs from "none".
_estimate_migration_effort(analysis) ==
    LET base_effort == 2 * 40
        routing_factor ==
            2 * (IF Get(analysis, "routing_library", "None") # "none" THEN 8 ELSE 0)
        state_mgmt_factor == 2 * (Len(Get(analysis, "state_management", <<>>)) * 4)
        total_quarters ==
            (base_effort + component_factor(analysis) + routing_factor
             + state_mgmt_factor)
            * react_complexity_multiplier(Get(analysis, "migration_complexity", "medium"))
    IN  [estimated_hours |-> total_quarters \div 4,
         estimated_days |-> total_quarters \div (4 * 8)]

\* ReactNextJSMigrationSpecialist.analyze_react_project: the analysis is a
\* fixed dictionary whatever the project path
analyze_react_project(project_path) ==
    LET analysis ==
            [routing_library |-> "unknown",
             state_management |-> <<>>,
             components_count |-> 0,
             migration_complexity |-> "medium"]
    IN  [status |-> "success", message |-> "",
         operation |-> "analyze_react_project",
         project_path |-> project_path,
         analysis_results |-> analysis,
         estimated_effort |-> _estimate_migration_effort(analysis)]

\* the project analyses the estimator is called with
ReactAnalyses ==
    {Body(f) : f \in [components_count : Opt({0, 7, 20, MaxComponents - 1, MaxComponents}),
                      routing_library : Opt({"none", "react-router-dom", "unknown"}),
                      state_management : Opt({ListOf(n) : n \in 0..MaxStateLibraries}),
                      migration_complexity : Opt({"low", "medium", "high", "extreme"})]}

\* a call of _estimate_migration_effort
EstimateMigrationEffort(analysis) ==
    AdvisorCall([op |-> "_estimate_migration_effort", analysis |-> analysis],
                [status |-> "returned", message |-> "",
                 estimated_effort |-> _estimate_migration_effort(analysis)])

\* a call of analyze_react_project
AnalyzeReactProject(project_path) ==
    AdvisorCall([op |-> "analyze_react_project", project_path |-> project_path],
                analyze_react_project(project_path))

InitAdvisors == WebInit({FALSE}, {FALSE}) /\ MonitorIdle /\ AppIdle

NextAdvisors ==
    \/ \E auth_config \in AuthConfigs : AnalyzeCurrentAuthSystem(auth_config)
    \/ \E flask_config \in FlaskConfigs : AnalyzeFlaskApi(flask_config)
    \/ \E analysis \in FlaskAnalyses : EstimateApiMigrationEffort(analysis)
    \/ \E analysis \in ReactAnalyses : EstimateMigrationEffort(analysis)
    \/ \E project_path \in {"./frontend", "./webapp"} : AnalyzeReactProject(project_path)

SpecAdvisors == InitAdvisors /\ [][NextAdvisors]_vars

-----------------------------------------------------------------------------
(* Properties *)

TokenRequiredAuthOps == {"POST /auth/logout", "POST /auth/refresh",
                         "GET /auth/me", "POST /auth/validate"}

\* C1: with the cache available, once a logout with a token has succeeded,
\* every later request to a token-required route bearing that token is
\* answered 401, and the token's revocation marker stays in the cache at
\* every moment before the token's own expiry (8 hours after issue).
C1_RevokedUntilExpiry ==
    /\ [](\A i \in DOMAIN tokens :
            tokens[i].jti \in loggedOut =>
                /\ Verdict(i) # "ok"
                /\ now < tokens[i].iat + 8 =>
                        redis_get(redis, tokens[i].jti, now) # <<>>)
    /\ [][(/\ req'.op \in TokenRequiredAuthOps
           /\ req'.bearer # 0
           /\ tokens[req'.bearer].jti \in loggedOut)
          => resp'.status = 401]_vars

\* a logged-out token is presented hours after its logout, before its
\* expiry, and is turned away as revoked
C1_Witness ==
    /\ req.op = "GET /auth/me"
    /\ req.bearer # 0
    /\ tokens[req.bearer].jti \in loggedOut
    /\ redis_client
    /\ now > tokens[req.bearer].iat
    /\ now < tokens[req.bearer].exp
    /\ resp.status = 401
    /\ resp.message = "Token has been revoked"

RECURSIVE Streak(_)
\* the number of consecutive failed cycles that end the cycle history h
Streak(h) ==
    IF h = <<>> \/ h[Len(h)] THEN 0 ELSE 1 + Streak(SubSeq(h, 1, Len(h) - 1))

AlertCount(log) == Cardinality({i \in DOMAIN log : log[i] = "ALERT"})

\* C2: with alert_threshold >= 1, a check cycle logs an ALERT, exactly one
\* and as its last event, if and only if the number of consecutive failed
\* cycles ending with that cycle is at least alert_threshold; the counter
\* is that number, so a fully healthy cycle resets it to 0.
C2_AlertIffStreakAtThreshold ==
    /\ consecutive_failures = Streak(history)
    /\ (monitor_pc = "running" /\ history # <<>>) =>
        /\ AlertCount(cycle_log) = (IF Streak(history) >= alert_threshold THEN 1 ELSE 0)
        /\ AlertCount(cycle_log) = 1 => cycle_log[Len(cycle_log)] = "ALERT"
        /\ history[Len(history)] => consecutive_failures = 0

\* the fourth cycle of a failure streak that follows a healthy cycle, under
\* the default threshold: one more ALERT
C2_Witness ==
    /\ monitor_pc = "running"
    /\ alert_threshold = DefaultAlertThreshold
    /\ Len(history) = 5
    /\ history[1]
    /\ Streak(history) = 4
    /\ consecutive_failures = 4
    /\ AlertCount(cycle_log) = 1

AdminOps == {"GET /admin/users", "PUT /admin/users/<id>", "DELETE /admin/users/<id>",
             "GET /admin/system/stats", "GET /admin/system/health",
             "GET /admin/logs", "GET /admin/settings", "PUT /admin/settings"}

\* the request of the step is an admin request that bears a valid token
ValidAdminRequest ==
    /\ req'.op \in AdminOps
    /\ req'.bearer # 0
    /\ Verdict(req'.bearer) = "ok"

\* C3: every admin route answers a request bearing a valid token whose role
\* is not ADMIN with 403 'Administrator access required' and leaves the
\* admin user store as it was.
C3_AdminGate ==
    [][(ValidAdminRequest /\ tokens[req'.bearer].role # "ADMIN")
       => /\ resp'.status = 403
          /\ resp'.message = "Administrator access required"
          /\ MOCK_USERS_DB' = MOCK_USERS_DB]_vars

\* the PUBLIC user asks to rename, promote and deactivate user_1 and is refused
C3_Witness ==
    /\ req.op = "PUT /admin/users/<id>"
    /\ req.bearer # 0
    /\ tokens[req.bearer].role = "PUBLIC"
    /\ req.user_id = "user_1"
    /\ DOMAIN req.data = {"name", "role", "isActive"}
    /\ resp.status = 403
    /\ MOCK_USERS_DB = MOCK_USERS_DB_Seed

\* the export limits of each role as the contract states them
ExportContract ==
    [role \in Roles |->
        CASE role = "GUEST" -> [rows |-> {}, formats |-> {}]
          [] role = "PUBLIC" -> [rows |-> 0..1000, formats |-> {"CSV", "JSON"}]
          [] role = "RESEARCHER" -> [rows |-> 0..10000, formats |-> {"CSV", "PDF", "JSON", "EXCEL"}]
          [] role = "JOURNALIST" -> [rows |-> 0..50000, formats |-> {"CSV", "PDF", "JSON", "EXCEL"}]
          [] role = "ADMIN" -> [rows |-> Nat, formats |-> {"CSV", "PDF", "JSON", "EXCEL"}]]

\* the format and the row count a POST /export/ body asks for
RequestedFormat(data) == format_upper(Get(Get(data, "options", <<>>), "format", "CSV"))

RequestedRows(data) == Get(data, "data", 0)

WithinContract(role, data) ==
    /\ RequestedFormat(data) \in ExportContract[role].formats
    /\ RequestedRows(data) \in ExportContract[role].rows

LoginWithCredentials ==
    /\ req'.op = "POST /auth/login"
    /\ {"email", "password"} \subseteq DOMAIN req'.data
    /\ lower_strip(req'.data["email"]) # ""
    /\ req'.data["password"] # ""

\* the role a login asks for: PUBLIC when the body names none
RequestedRole(data) == IF "role" \in DOMAIN data THEN data["role"] ELSE "PUBLIC"

\* C5: a login carrying an e-mail and a password is answered 401 when the
\* e-mail is not in the user table or the password does not match the stored
\* hash; otherwise 403 when the account is inactive or the requested role is
\* not the stored one; otherwise 200 with the user record and a token whose
\* claims are the stored e-mail, role and name.  Last-login is set in the 200
\* case and the user table is untouched in every other case.
C5_LoginCheckOrder ==
    [][LoginWithCredentials =>
        LET e == lower_strip(req'.data["email"])
            p == req'.data["password"]
        IN  IF \/ e \notin DOMAIN MOCK_USERS
               \/ MOCK_USERS[e].password_hash # generate_password_hash(p)
            THEN /\ resp'.status = 401
                 /\ resp'.token = <<>>
                 /\ tokens' = tokens
                 /\ MOCK_USERS' = MOCK_USERS
            ELSE IF \/ ~MOCK_USERS[e].is_active
                    \/ MOCK_USERS[e].role # RequestedRole(req'.data)
            THEN /\ resp'.status = 403
                 /\ resp'.token = <<>>
                 /\ tokens' = tokens
                 /\ MOCK_USERS' = MOCK_USERS
            ELSE /\ resp'.status = 200
                 /\ Len(resp'.token) = 1
                 /\ resp'.token[1].email = MOCK_USERS[e].email
                 /\ resp'.token[1].role = MOCK_USERS[e].role
                 /\ resp'.token[1].name = MOCK_USERS[e].name
                 /\ tokens' = Append(tokens, resp'.token[1])
                 /\ Len(resp'.user) = 1
                 /\ resp'.user[1].id = MOCK_USERS[e].id
                 /\ resp'.user[1].email = MOCK_USERS[e].email
                 /\ resp'.user[1].role = MOCK_USERS[e].role
                 /\ resp'.user[1].name = MOCK_USERS[e].name
                 /\ MOCK_USERS' = [MOCK_USERS EXCEPT ![e].last_login = now]
    ]_vars

\* the administrator, logged in some hours ago, is refused with 401 on a
\* request whose password and role are both wrong, and keeps the old last-login
C5_Witness ==
    /\ req.op = "POST /auth/login"
    /\ req.data = [email |-> "ADMIN@ca-lobby.gov", password |-> "public123"]
    /\ resp.status = 401
    /\ MOCK_USERS["admin@ca-lobby.gov"].last_login # NoTime
    /\ MOCK_USERS["admin@ca-lobby.gov"].last_login < now

\* the admin store holds, for this e-mail, a record the administrator
\* deactivated and has not reactivated
DeactivatedByAdmin(email) ==
    \E id \in DOMAIN MOCK_USERS_DB :
        /\ MOCK_USERS_DB[id].email = email
        /\ ~MOCK_USERS_DB[id].isActive
        /\ \/ MOCK_USERS_DB[id].deactivatedDate # NoTime
           \/ MOCK_USERS_DB[id].updatedDate # NoTime

\* C6: once an administrator has deactivated a user, a login for that user's
\* e-mail with the correct password and role is answered 403 'Account is
\* deactivated' and issues no token.
C6_DeactivatedLoginRefused ==
    [][(/\ LoginWithCredentials
        /\ DeactivatedByAdmin(lower_strip(req'.data["email"]))
        /\ lower_strip(req'.data["email"]) \in DOMAIN MOCK_USERS
        /\ MOCK_USERS[lower_strip(req'.data["email"])].password_hash
                = generate_password_hash(req'.data["password"])
        /\ MOCK_USERS[lower_strip(req'.data["email"])].role = RequestedRole(req'.data))
       => /\ resp'.status = 403
          /\ resp'.message = "Account is deactivated"
          /\ tokens' = tokens
    ]_vars

\* C7: every record of the admin user store has a role of the five-role enum.
C7_StoredRolesInEnum ==
    \A id \in DOMAIN MOCK_USERS_DB : MOCK_USERS_DB[id].role \in Roles

\* C8: an administrator's DELETE on a known id sets isActive to false and
\* stamps the deactivation time, leaving every other field and every other
\* record as it was; on an unknown id it answers 404 and changes nothing; and
\* no step of the admin machine changes the set of user ids of the store.
C8_SoftDelete ==
    [][/\ DOMAIN MOCK_USERS_DB' = DOMAIN MOCK_USERS_DB
       /\ (req'.op = "DELETE /admin/users/<id>" /\ resp'.status \notin {401, 403})
          => IF req'.user_id \in DOMAIN MOCK_USERS_DB
             THEN /\ resp'.status = 200
                  /\ MOCK_USERS_DB' =
                        [MOCK_USERS_DB EXCEPT ![req'.user_id].isActive = FALSE,
                                              ![req'.user_id].deactivatedDate = now]
             ELSE /\ resp'.status = 404
                  /\ MOCK_USERS_DB' = MOCK_USERS_DB
    ]_vars

\* user_1 has been deactivated by a DELETE and is still in the store
C8_Witness ==
    /\ req.op = "DELETE /admin/users/<id>"
    /\ req.user_id = "user_1"
    /\ resp.status = 200
    /\ "user_1" \in DOMAIN MOCK_USERS_DB
    /\ ~MOCK_USERS_DB["user_1"].isActive
    /\ MOCK_USERS_DB["user_1"].deactivatedDate # NoTime
    /\ MOCK_USERS_DB["user_1"].email = "public@ca-lobby.gov"

\* some disallowed keyword occurs in the query, letter case aside
MentionsKeyword(query) ==
    \E k \in DOMAIN dangerous_keywords :
        \E i \in 1..(Len(query) - Len(dangerous_keywords[k]) + 1) :
            \A j \in 1..Len(dangerous_keywords[k]) :
                upper_char(query[i + j - 1]) = dangerous_keywords[k][j]

CustomReportRoles == {"RESEARCHER", "JOURNALIST", "ADMIN"}

\* the request handled is a custom-report request that bears a valid token
CustomReportHandled ==
    req.op = "POST /reports/custom/generate" /\ resp.status # 401

\* C9: for a RESEARCHER, JOURNALIST or ADMIN caller, a non-empty custom-report
\* query in which one of the eleven keywords occurs as a substring, in any
\* letter case and also inside a quoted string, is answered 400 and no query
\* is sent to the warehouse; any other role is answered 403 whatever the
\* request carries.
C9_KeywordScreen ==
    CustomReportHandled =>
        LET role == tokens[req.bearer].role
        IN  /\ role \notin CustomReportRoles => (resp.status = 403 /\ resp.sent = <<>>)
            /\ (/\ role \in CustomReportRoles
                /\ "query" \in DOMAIN req.data
                /\ MentionsKeyword(req.data["query"]))
               => (resp.status = 400 /\ resp.sent = <<>>)

\* an administrator submits a SELECT whose quoted string holds a keyword in mixed case
C9_Witness ==
    /\ CustomReportHandled
    /\ tokens[req.bearer].role = "ADMIN"
    /\ bigquery_client
    /\ "query" \in DOMAIN req.data
    /\ req.data["query"] = <<"S", "E", "L", "E", "C", "T", " ", "'", "d", "R", "o", "P", "'", " ", "A", "S", " ", "c">>
    /\ resp.status = 400
    /\ resp.sent = <<>>

\* C10 as stated: a query of SELECT clauses only, whatever its column, table
\* and alias names, is not answered 400 for a permitted role.
C10_AnySelectAccepted ==
    (/\ CustomReportHandled
     /\ tokens[req.bearer].role \in CustomReportRoles
     /\ "query" \in DOMAIN req.data
     /\ req.data["query"] \in SelectOnlyQueries)
    => resp.status # 400

\* C10 amended: a query of SELECT clauses only in which none of the eleven
\* keywords occurs as a substring (in any letter case) is accepted for a
\* permitted role: it is answered 200, and it is the query sent when the
\* warehouse client exists.
C10_KeywordFreeSelectAccepted ==
    (/\ CustomReportHandled
     /\ tokens[req.bearer].role \in CustomReportRoles
     /\ "query" \in DOMAIN req.data
     /\ req.data["query"] \in SelectOnlyQueries
     /\ ~MentionsKeyword(req.data["query"]))
    => /\ resp.status = 200
       /\ bigquery_client => resp.sent = <<req.data["query"]>>

\* a researcher's lower-case SELECT reaches the warehouse
C10_Witness ==
    /\ CustomReportHandled
    /\ tokens[req.bearer].role = "RESEARCHER"
    /\ bigquery_client
    /\ "query" \in DOMAIN req.data
    /\ req.data["query"] = <<"s", "e", "l", "e", "c", "t", " ", "n", "a", "m", "e", " ", "f", "r", "o", "m", " ", "f", "i", "r", "m">>
    /\ resp.status = 200
    /\ resp.sent = <<req.data["query"]>>

\* C11 as stated: once a GET /dashboard/stats that found no cache entry has
\* stored its aggregate, every GET /dashboard/stats that begins after that
\* answer and is answered less than 900 seconds after it returns cached: true
\* with the very aggregate of that first answer.
C11_CachedWithinTtl ==
    \A i \in DOMAIN stats_log : \A j \in DOMAIN stats_log :
        (/\ i < j
         /\ stats_log[i].stored
         /\ stats_log[j].began >= i
         /\ stats_log[j].at < stats_log[i].at + STATS_TTL)
        => /\ stats_log[j].cached
           /\ stats_log[j].data = stats_log[i].data

\* C12: when the application has no cache connection, nothing is ever
\* recorded in the cache, no request is answered with a server error, and
\* every request to a token-required route that bears a token -- a token
\* whose own logout was answered 200 included -- is answered 200 until the
\* token expires and 401 'Token has expired' from then on.
C12_NoCacheDegraded ==
    /\ [](~redis_client => redis = <<>>)
    /\ [][~redis_client =>
            /\ resp'.status \notin {500, 503}
            /\ (req'.op \in TokenRequiredAuthOps /\ req'.bearer # 0)
               => IF now < tokens[req'.bearer].exp
                    THEN resp'.status = 200
                    ELSE resp'.status = 401 /\ resp'.message = "Token has expired"
       ]_vars

\* without a cache, a token is accepted hours after its own logout
C12_Witness ==
    /\ ~redis_client
    /\ req.op = "POST /auth/validate"
    /\ req.bearer # 0
    /\ tokens[req.bearer].jti \in logoutsAnswered
    /\ now > tokens[req.bearer].iat
    /\ resp.status = 200

SearchOps == {"POST /search/entities", "POST /search/financial", "POST /search/filings"}

\* C13 as stated: a search request on any of the three routes, made when
\* the warehouse client is unavailable or when the warehouse query raises,
\* is answered 200 with mock: true, a total count of 1000 and records that
\* all have the twenty keys of the filing shape.
C13_MockFallback ==
    (req.op \in SearchOps /\ (~bigquery_client \/ ~req.query_ok))
    => /\ resp.status = 200
       /\ resp.mock = <<TRUE>>
       /\ resp.pagination.totalCount = 1000
       /\ \A i \in DOMAIN resp.data : DOMAIN resp.data[i] = FilingShape

\* the highest amendment id the warehouse records for a filing id
LatestAmendment(filing_id) ==
    CHOOSE a \in {cvr.amend_id : cvr \in {c \in cvr_lobby_disclosure_cd : c.filing_id = filing_id}} :
        \A cvr \in cvr_lobby_disclosure_cd : cvr.filing_id = filing_id => cvr.amend_id <= a

\* C14 as stated: every row an entity or financial search returns from the
\* warehouse carries the highest amendment id the warehouse records for its
\* filing id and is flagged latest_amendment_flag, whatever the filters.
C14_LatestAmendmentOnly ==
    (/\ req.op \in {"POST /search/entities", "POST /search/financial"}
     /\ resp.status = 200
     /\ resp.mock = <<>>)
    => \A i \in DOMAIN resp.data :
        /\ resp.data[i].latest_amendment_flag
        /\ resp.data[i].amendment_id = LatestAmendment(resp.data[i].filing_id)

\* C15 as stated: continuous monitoring is left only on an interrupt, which
\* is logged as a clean shutdown (one INFO line); a cycle in which another
\* exception is raised logs the failure and leaves monitoring running for a
\* further cycle.
C15_OnlyInterruptStopsMonitoring ==
    [][(monitor_pc = "running" /\ monitor_pc' = "stopped") => cycle_log' = <<"INFO">>]_vars

\* C15 amended: a cycle in which an exception other than an interrupt is
\* raised (it completes no check and logs one ERROR line) ends monitoring;
\* monitoring is left only that way or on an interrupt, which logs one INFO
\* line; either way no check is counted in the stopping step and none runs
\* afterwards.
C15_ExceptionEndsMonitoring ==
    [][/\ (monitor_pc = "running" /\ history' = history /\ cycle_log' = <<"ERROR">>)
            => monitor_pc' = "stopped"
       /\ (monitor_pc = "running" /\ monitor_pc' = "stopped")
            => /\ cycle_log' \in {<<"INFO">>, <<"ERROR">>}
               /\ history' = history
               /\ consecutive_failures' = consecutive_failures
       /\ monitor_pc = "stopped"
            => monitor_pc' = "stopped" /\ history' = history]_vars

\* monitoring ended by an exception after some cycle, with cycles to spare
C15_Witness ==
    /\ monitor_pc = "stopped"
    /\ cycle_log = <<"ERROR">>
    /\ history # <<>>
    /\ Len(history) < MaxCycles

\* the environments a single check of env has to cover
CheckedEnvironments(env) ==
    IF env = <<>> THEN {"local", "production"} ELSE {env[1]}

\* C16: a single check answers true exactly when every environment it had to
\* cover is configured and every endpoint of each was probed and answered
\* with success; with no environment given it covers all configured
\* environments; the process exits 0 exactly when the answer is true, else 1.
C16_SingleCheckResult ==
    monitor_pc = "exited" =>
        LET checked == CheckedEnvironments(environment)
            all_probed ==
                \A e \in checked :
                    /\ e \in DOMAIN ConfigEndpoints
                    /\ Cardinality({i \in DOMAIN probes : probes[i].env = e})
                            = Len(ConfigEndpoints[e].endpoints)
        IN  /\ history[1] <=> (all_probed /\ \A i \in DOMAIN probes : probes[i].result.success)
            /\ environment = <<>> => {probes[i].env : i \in DOMAIN probes} = {"local", "production"}
            /\ exit_code = <<IF history[1] THEN 0 ELSE 1>>

\* a check of all environments in which one environment is wholly healthy and
\* the other has a failed probe, exiting 1
C16_Witness ==
    /\ monitor_pc = "exited"
    /\ environment = <<>>
    /\ \A i \in DOMAIN probes : probes[i].env = "local" => probes[i].result.success
    /\ \E i \in DOMAIN probes : probes[i].env = "production" /\ ~probes[i].result.success
    /\ \E i \in DOMAIN probes : probes[i].env = "production" /\ probes[i].result.success
    /\ exit_code = <<1>>

\* C17 as stated: every probe is classified: a timeout gives error TIMEOUT,
\* a refused connection gives CONNECTION_ERROR, a response with status 200
\* gives success with no error, a response with another status gives no
\* success; and success holds exactly when the recorded status code is 200.
C17_ProbeClassified ==
    \A i \in DOMAIN probes :
        LET met == probes[i].met
            result == probes[i].result
        IN  /\ met.kind = "Timeout" => result.error = "TIMEOUT"
            /\ met.kind = "ConnectionError" => result.error = "CONNECTION_ERROR"
            /\ (met.kind = "response" /\ met.status_code = 200)
                    => result.success /\ result.error = ""
            /\ (met.kind = "response" /\ met.status_code # 200) => ~result.success
            /\ result.success <=> result.status_code = 200

KeywordRow(agent_type) ==
    agent_keywords[CHOOSE i \in DOMAIN agent_keywords : agent_keywords[i].agent_type = agent_type]

\* the number of an agent type's keywords that occur in the description,
\* whatever the case of its letters
KeywordScore(agent_type, task_description) ==
    Cardinality({i \in DOMAIN KeywordRow(agent_type).keywords :
                    Contains(lower(task_description), lower(KeywordRow(agent_type).keywords[i]))})

TablePosition(agent_type) ==
    CHOOSE i \in DOMAIN agent_keywords : agent_keywords[i].agent_type = agent_type

TableAgentTypes == {agent_keywords[i].agent_type : i \in DOMAIN agent_keywords}

\* C19 as stated: the recommendations hold exactly the agent types of the
\* keyword table whose score (keywords occurring in the description, case
\* ignored) is above 0, each once, with that score and exactly its matched
\* keywords, ordered by descending score and, for equal scores, in table
\* order; a description containing 'vercel deployment' has
\* vercel-deployment-expert first with a score of at least 2.
C19_Recommendations ==
    req.op = "recommend_agent_for_task" =>
        LET task == req.task_description
            recs == resp.recommendations
        IN  /\ {recs[i].agent_type : i \in DOMAIN recs}
                    = {a \in TableAgentTypes : KeywordScore(a, task) > 0}
            /\ \A i \in DOMAIN recs :
                /\ recs[i].score = KeywordScore(recs[i].agent_type, task)
                /\ Range(recs[i].match_keywords)
                        = {kw \in Range(KeywordRow(recs[i].agent_type).keywords) :
                                Contains(lower(task), kw)}
            /\ \A i \in DOMAIN recs : \A j \in DOMAIN recs :
                i < j => \/ recs[i].score > recs[j].score
                         \/ /\ recs[i].score = recs[j].score
                            /\ TablePosition(recs[i].agent_type) < TablePosition(recs[j].agent_type)
            /\ Contains(lower(task), <<"v", "e", "r", "c", "e", "l", " ", "d", "e", "p", "l", "o", "y", "m", "e", "n", "t">>)
                    => /\ recs # <<>>
                       /\ recs[1].agent_type = "vercel-deployment-expert"
                       /\ recs[1].score >= 2

\* C20 as stated: the task runs on the agent type that scores highest in
\* the keyword table (the earlier row for equal scores), on general-purpose
\* when no keyword matches; the envelope has status completed, the type of
\* the agent that ran and the description unchanged as prompt; an error
\* envelope comes only when no agent, general-purpose included, is there.
C20_BestAgentRuns ==
    req.op = "execute_task_with_best_agent" =>
        LET task == req.task_description
            scoring == {a \in TableAgentTypes : KeywordScore(a, task) > 0}
            best == CHOOSE a \in scoring : \A b \in scoring \ {a} :
                        \/ KeywordScore(a, task) > KeywordScore(b, task)
                        \/ /\ KeywordScore(a, task) = KeywordScore(b, task)
                           /\ TablePosition(a) < TablePosition(b)
        IN  /\ resp.status = "error" => get_agent("general-purpose") = <<>>
            /\ resp.status # "error" =>
                /\ resp.status = "completed"
                /\ resp.prompt = task
                /\ resp.agent_type = IF scoring = {} THEN "general-purpose" ELSE best

\* C21 as stated: the recommended target system follows the decision order
\* on the auth configuration: clerk if MFA is enabled or there are more than
\* 3 roles; else nextauth if there is a social login provider or the auth
\* type is oauth; else supabase_auth if there is a password-reset or an
\* email-verification flow; else nextauth.
C21_AuthDecisionOrder ==
    req.op = "analyze_current_auth_system" =>
        LET config == req.auth_config
            expected ==
                IF Get(config, "mfa", FALSE) \/ Len(Get(config, "roles", <<>>)) > 3
                    THEN "clerk"
                ELSE IF Len(Get(config, "social_providers", <<>>)) > 0
                        \/ Get(config, "type", "unknown") = "oauth"
                    THEN "nextauth"
                ELSE IF Get(config, "password_reset", FALSE)
                        \/ Get(config, "email_verification", FALSE)
                    THEN "supabase_auth"
                ELSE "nextauth"
        IN  resp.target_recommendation.recommended_system = expected

\* twenty times (16 + 1.5 x endpoints + 3 x middleware + 12 with a database
\* + 8 with an auth method + 2 x extensions) x multiplier, the multiplier
\* being 1.0, 1.3, 2.0 for low, medium, high
FlaskEffortTwentieths(endpoints, middleware, database, auth, extensions, complexity) ==
    (32 + 3 * endpoints + 6 * middleware + (IF database THEN 24 ELSE 0)
     + (IF auth THEN 16 ELSE 0) + 4 * extensions)
    * (CASE complexity = "low" -> 10 [] complexity = "medium" -> 13
         [] complexity = "high" -> 20)

\* hours and days are the floors of x/20 and of x/160
IsFlooredEffort(effort, twentieths) ==
    /\ 20 * effort.estimated_hours <= twentieths
    /\ twentieths < 20 * (effort.estimated_hours + 1)
    /\ 160 * effort.estimated_days <= twentieths
    /\ twentieths < 160 * (effort.estimated_days + 1)

\* C22 as stated: the Flask estimate is the floor of (16 + 1.5 x endpoints +
\* 3 x middleware + 12 with a database + 8 with an auth method + 2 x
\* extensions) x multiplier (1.0, 1.3, 2.0; medium when unspecified), the days
\* the floor of hours / 8; the estimate analyze_flask_api returns counts the
\* configuration's endpoints, middleware, database, auth method and
\* extensions in it.
C22_FlaskEffort ==
    /\ req.op = "_estimate_api_migration_effort" =>
        IsFlooredEffort(resp.estimated_effort,
            FlaskEffortTwentieths(
                Get(req.analysis, "endpoints_count", 0),
                Len(Get(req.analysis, "middleware", <<>>)),
                Get(req.analysis, "database_integration", "none") # "none",
                Get(req.analysis, "authentication_method", "none") # "none",
                Len(Get(req.analysis, "extensions_used", <<>>)),
                Get(req.analysis, "migration_complexity", "medium")))
    /\ req.op = "analyze_flask_api" =>
        IsFlooredEffort(resp.estimated_effort,
            FlaskEffortTwentieths(
                Len(Get(req.flask_config, "endpoints", <<>>)),
                Len(Get(req.flask_config, "middleware", <<>>)),
                Get(req.flask_config, "database", "none") # "none",
                Get(req.flask_config, "auth", "none") # "none",
                Len(Get(req.flask_config, "extensions", <<>>)),
                "medium"))

\* quarter hours of the React estimate: (40 + min(0.5 x components, 20) + 8
\* with routing + 4 x libraries) x multiplier
ReactEffortQuarters(components, routing, libraries, complexity) ==
    (80 + (IF components <= 40 THEN components ELSE 40)
     + (IF routing THEN 16 ELSE 0) + 8 * libraries)
    * (CASE complexity = "low" -> 2 [] complexity = "high" -> 5 [] OTHER -> 3)

\* hours and days are the floors of x/4 and of x/32
IsFlooredReactEffort(effort, quarters) ==
    /\ 4 * effort.estimated_hours <= quarters
    /\ quarters < 4 * (effort.estimated_hours + 1)
    /\ 32 * effort.estimated_days <= quarters
    /\ quarters < 32 * (effort.estimated_days + 1)

\* C23: the React estimate is the floor of (40 + min(0.5 x components, 20) +
\* 8 when a routing library is used (any routing_library but "none") + 4 x
\* state-management libraries) x multiplier (1.0, 1.5, 2.5; medium when
\* unspecified), the days the floor of hours / 8, for every project analysis;
\* 20 components, react-router-dom, one library and medium give 93 and 11.
C23_ReactEffort ==
    /\ req.op = "_estimate_migration_effort" =>
        /\ IsFlooredReactEffort(resp.estimated_effort,
              ReactEffortQuarters(
                  Get(req.analysis, "components_count", 0),
                  Get(req.analysis, "routing_library", "unknown") # "none",
                  Len(Get(req.analysis, "state_management", <<>>)),
                  Get(req.analysis, "migration_complexity", "medium")))
        /\ req.analysis = [components_count |-> 20, routing_library |-> "react-router-dom",
                           state_management |-> ListOf(1), migration_complexity |-> "medium"]
              => resp.estimated_effort = [estimated_hours |-> 93, estimated_days |-> 11]
    /\ req.op = "analyze_react_project" =>
        IsFlooredReactEffort(resp.estimated_effort,
            ReactEffortQuarters(0, TRUE, 0, "medium"))

\* the estimator has answered for a project of more components than the cap
\* counts, with routing, a state-management library and high complexity
C23_Witness ==
    /\ req.op = "_estimate_migration_effort"
    /\ Get(req.analysis, "components_count", 0) > 40
    /\ Get(req.analysis, "routing_library", "unknown") = "react-router-dom"
    /\ Len(Get(req.analysis, "state_management", <<>>)) = 1
    /\ Get(req.analysis, "migration_complexity", "medium") = "high"
    /\ resp.estimated_effort = [estimated_hours |-> 180, estimated_days |-> 22]

\* the role's full daily quota as the claim states it
DailyQuota(role) ==
    CASE role = "PUBLIC" -> JsonNumber(5)
      [] role = "RESEARCHER" -> JsonNumber(20)
      [] role \in {"JOURNALIST", "ADMIN"} -> JsonString("Unlimited")
      [] role = "GUEST" -> JsonNumber(0)

\* C24 as stated: GET /export/limits reports the caller's role (GUEST without
\* a token), zero exports used today and a remaining-today figure equal to the
\* role's daily quota: 5 PUBLIC, 20 RESEARCHER, unlimited JOURNALIST and ADMIN,
\* 0 GUEST.
C24_ExportLimits ==
    (req.op = "GET /export/limits" /\ resp.status = 200) =>
        /\ resp.role = (IF req.bearer = 0 THEN "GUEST" ELSE tokens[req.bearer].role)
        /\ resp.exportHistory.todayCount = 0
        /\ resp.exportHistory.remainingToday = DailyQuota(resp.role)

\* C25 as stated: a request to a path without a registered route is answered
\* 404 with a JSON body that has status 'error', a message containing
\* 'not found' and a timestamp.
C25_NotFoundEnvelope ==
    (req.op = "GET" /\ req.path \notin url_map) =>
        /\ resp.status = 404
        /\ "status" \in DOMAIN resp.body
        /\ resp.body.status = "error"
        /\ "message" \in DOMAIN resp.body
        /\ Contains(lower(resp.body.message),
                    <<"n", "o", "t", " ", "f", "o", "u", "n", "d">>)
        /\ "timestamp" \in DOMAIN resp.body

\* C26 as stated: in every record filing search returns from the warehouse,
\* latest_amendment_flag is true exactly when the record's amendment id is the
\* highest one recorded for its filing id; with latestAmendmentOnly on only
\* such records are returned, and with it off (no other filter, default
\* pagination) an older amendment is returned too.
C26_FilingLatestFlag ==
    (/\ req.op = "POST /search/filings"
     /\ resp.status = 200
     /\ resp.mock = <<>>)
    => LET params == Get(req.data, "params", <<>>)
       IN  /\ \A i \in DOMAIN resp.data :
                resp.data[i].latest_amendment_flag
                    <=> (resp.data[i].amendment_id = LatestAmendment(resp.data[i].filing_id))
           /\ Given(params, "latestAmendmentOnly") =>
                \A i \in DOMAIN resp.data :
                    resp.data[i].amendment_id = LatestAmendment(resp.data[i].filing_id)
           /\ (params = <<>> /\ "pagination" \notin DOMAIN req.data) =>
                \E i \in DOMAIN resp.data :
                    resp.data[i].amendment_id < LatestAmendment(resp.data[i].filing_id)

WorkflowAgentTypes ==
    {get_migration_workflow_agents[i].agent_type : i \in DOMAIN get_migration_workflow_agents}

\* C27 as stated: every agent type the keyword table and the migration-workflow
\* view name is the key of an agent registered at initialization: get_agent
\* returns an agent for each of them, the view lists registered agent types
\* only, and every agent type with a keyword score above 0 (the Flask API
\* migration specialist for 'flask') is among the recommendations.
C27_NamedAgentsRegistered ==
    /\ (req.op = "get_agent" /\ req.agent_type \in TableAgentTypes \cup WorkflowAgentTypes)
            => resp.agent = <<req.agent_type>>
    /\ req.op = "get_migration_workflow_agents" =>
            \A i \in DOMAIN resp.migration_agents :
                resp.migration_agents[i].agent_type \in Range(RegisteredAgentTypes)
    /\ req.op = "recommend_agent_for_task" =>
            \A a \in TableAgentTypes :
                KeywordScore(a, req.task_description) > 0
                    => \E i \in DOMAIN resp.recommendations :
                            resp.recommendations[i].agent_type = a

\* C28 as stated: every query text custom-report generation sends to the
\* warehouse, the submitted query with its $name parameters replaced by the
\* request's values, contains none of the eleven disallowed keywords.
C28_SentQueryScreened ==
    (/\ req.op = "POST /reports/custom/generate"
     /\ resp.status = 200
     /\ resp.sent # <<>>)
    => /\ resp.sent[1] = Substitute(req.data["query"], Get(req.data, "parameters", <<>>))
       /\ ~MentionsKeyword(resp.sent[1])

\* C29 as stated: a PUT /admin/users/<id> answered with an error (400 for a
\* role outside the enum, 400 for a missing body, 404 for an unknown id, 403
\* for a caller who is not an administrator) leaves every user record as it
\* was before the request.
C29_FailedUpdateChangesNothing ==
    [][(req'.op = "PUT /admin/users/<id>" /\ resp'.status \in {400, 403, 404})
        => MOCK_USERS_DB' = MOCK_USERS_DB]_vars

\* C30: revocation is per token identifier.  A logout answered 200 changes
\* the cache at most at the marker of the token it bears (and sets it when
\* the cache is there), and the verdict on every other token is as before;
\* login and refresh leave the cache as it is; a token that has not been
\* logged out itself and has not expired is accepted on every token-required
\* route, whatever other tokens were logged out.
C30_RevocationPerToken ==
    /\ [](\A i \in DOMAIN tokens :
            (tokens[i].jti \notin loggedOut /\ now < tokens[i].exp) => Verdict(i) = "ok")
    /\ [][
          /\ (req'.op = "POST /auth/logout" /\ resp'.status = 200) =>
                (/\ DOMAIN redis \subseteq DOMAIN redis'
                 /\ \A k \in DOMAIN redis' \ {tokens[req'.bearer].jti} :
                        k \in DOMAIN redis /\ redis'[k] = redis[k]
                 /\ (redis_client =>
                        redis_get(redis', tokens[req'.bearer].jti, now') # <<>>)
                 /\ \A i \in DOMAIN tokens \ {req'.bearer} :
                        jwt_required(redis_client, redis', Bearer(i), now') = Verdict(i))
          /\ (req'.op \in {"POST /auth/login", "POST /auth/refresh"} => redis' = redis)
          /\ (/\ req'.op \in TokenRequiredAuthOps
              /\ req'.bearer # 0
              /\ tokens[req'.bearer].jti \notin loggedOut
              /\ now < tokens[req'.bearer].exp)
             => resp'.status = 200
       ]_vars

\* the first token has been logged out; the second, issued to the same user
\* before that logout, is presented afterwards and accepted
C30_Witness ==
    /\ redis_client
    /\ Len(tokens) = 2
    /\ tokens[1].sub = tokens[2].sub
    /\ tokens[1].jti \in loggedOut
    /\ redis_get(redis, tokens[1].jti, now) # <<>>
    /\ req.op = "GET /auth/me"
    /\ req.bearer = 2
    /\ resp.status = 200

====
